---- MODULE Spec2Model ----
(***************************************************************************)
(* A model of xkcdfs: the inode address space (src/src/fs/file.rs), the    *)
(* FUSE operation handlers (src/src/fs/mod.rs), the retrieval orchestrator *)
(* (src/src/requests/mod.rs) over the SQLite cache                         *)
(* (src/src/requests/database.rs) and the remote API                       *)
(* (src/src/requests/api.rs), and the outcome of the image compositor      *)
(* (src/src/image.rs).                                                     *)
(*                                                                         *)
(* TLC's integers are 32 bits wide, so the two u32 halves of an inode are  *)
(* modelled HalfBits bits wide each and a u64 is 2*HalfBits bits wide; all *)
(* shifts, truncations and wrap-arounds are computed at that width.        *)
(***************************************************************************)
EXTENDS Integers, Sequences, FiniteSets, TLC

VARIABLES
    comics,           \* table comics: comic number -> stored row
    raw_images,       \* table raw_images: comic number -> bytes
    rendered_images,  \* table rendered_images: comic number -> bytes
    next_fh,          \* XkcdFs.next_fh
    crashed,          \* the process panicked while serving an operation
    call,             \* the last operation and its arguments
    reply,            \* what that operation replied
    trace             \* the cache, remote and compositor calls it made, in order

vars == <<comics, raw_images, rendered_images, next_fh, crashed, call, reply, trace>>

---------------------------------------------------------------------------
(* Bounds of the model *)

MaxNum == 1       \* the remote archive holds comics 1..MaxNum
MaxLow == 7       \* lower inode halves 0..MaxLow are tried
MaxOff == 2       \* read and readdir offsets -1..MaxOff are tried
MaxSize == 1      \* read sizes 0..MaxSize, and the largest u32, are tried
MaxData == 2      \* written data is 0..MaxData bytes long
MaxFh == 2        \* opens are tried while next_fh < MaxFh
MaxRoom == 2      \* a readdir reply has room for 1..MaxRoom entries, or for all
MaxCount == 2     \* comic counts 0..MaxCount, and the largest u32, are listed
MaxText == 3      \* texts of 1..MaxText characters are broken into lines
MaxWidth == 3     \* target widths 1..MaxWidth
FhBits == 3       \* next_fh is modelled FhBits wide, so that it wraps within reach

---------------------------------------------------------------------------
(* Machine integers *)

HalfBits == 15
U32 == 2 ^ HalfBits              \* number of values of a u32
U32_MAX == U32 - 1
U64 == U32 * U32                 \* number of values of a u64
FH == 2 ^ FhBits                 \* number of values of next_fh (a u64)

---------------------------------------------------------------------------
(* Option<T> *)

None == << >>
Some(x) == << x >>
IsSome(o) == o # << >>
Unwrap(o) == o[1]

---------------------------------------------------------------------------
(* enum File (fs/file.rs) *)

Root == [kind |-> "Root", num |-> 0]
Refresh == [kind |-> "Refresh", num |-> 0]
Credits == [kind |-> "Credits", num |-> 0]
Image(n) == [kind |-> "Image", num |-> n]
MetaFolder(n) == [kind |-> "MetaFolder", num |-> n]
AltText(n) == [kind |-> "AltText", num |-> n]
Title(n) == [kind |-> "Title", num |-> n]
Transcript(n) == [kind |-> "Transcript", num |-> n]
Date(n) == [kind |-> "Date", num |-> n]
RawImage(n) == [kind |-> "RawImage", num |-> n]

ComicKinds == {"Image", "MetaFolder", "AltText", "Title", "Transcript", "Date", "RawImage"}

\* from_inode with the last arm taking every lower half above 5
MutFromInode(ino) ==
    LET upper_bytes == (ino \div U32) % U32
        lower_bytes == ino % U32
    IN  CASE upper_bytes = 0 /\ lower_bytes = 1 -> Some(Root)
          [] upper_bytes = 0 /\ lower_bytes = 2 -> Some(Refresh)
          [] upper_bytes = 0 /\ lower_bytes = 3 -> Some(Credits)
          [] upper_bytes = 0 /\ lower_bytes \notin {1, 2, 3} -> None
          [] upper_bytes # 0 /\ lower_bytes = 0 -> Some(Image(upper_bytes))
          [] upper_bytes # 0 /\ lower_bytes = 1 -> Some(MetaFolder(upper_bytes))
          [] upper_bytes # 0 /\ lower_bytes = 2 -> Some(AltText(upper_bytes))
          [] upper_bytes # 0 /\ lower_bytes = 3 -> Some(Title(upper_bytes))
          [] upper_bytes # 0 /\ lower_bytes = 4 -> Some(Transcript(upper_bytes))
          [] upper_bytes # 0 /\ lower_bytes = 5 -> Some(Date(upper_bytes))
          [] OTHER -> Some(RawImage(upper_bytes))

from_inode(ino) ==
    LET upper_bytes == (ino \div U32) % U32
        lower_bytes == ino % U32
    IN  CASE upper_bytes = 0 /\ lower_bytes = 1 -> Some(Root)
          [] upper_bytes = 0 /\ lower_bytes = 2 -> Some(Refresh)
          [] upper_bytes = 0 /\ lower_bytes = 3 -> Some(Credits)
          [] upper_bytes = 0 /\ lower_bytes \notin {1, 2, 3} -> None
          [] upper_bytes # 0 /\ lower_bytes = 0 -> Some(Image(upper_bytes))
          [] upper_bytes # 0 /\ lower_bytes = 1 -> Some(MetaFolder(upper_bytes))
          [] upper_bytes # 0 /\ lower_bytes = 2 -> Some(AltText(upper_bytes))
          [] upper_bytes # 0 /\ lower_bytes = 3 -> Some(Title(upper_bytes))
          [] upper_bytes # 0 /\ lower_bytes = 4 -> Some(Transcript(upper_bytes))
          [] upper_bytes # 0 /\ lower_bytes = 5 -> Some(Date(upper_bytes))
          [] upper_bytes # 0 /\ lower_bytes = 6 -> Some(RawImage(upper_bytes))
          [] OTHER -> None

from_halves(high, low) == ((high * U32) + low) % U64

\* inode with the discriminants of Title and Transcript exchanged
MutInode(f) ==
    CASE f.kind = "Root" -> 1
      [] f.kind = "Refresh" -> 2
      [] f.kind = "Credits" -> 3
      [] f.kind = "Image" -> from_halves(f.num, 0)
      [] f.kind = "MetaFolder" -> from_halves(f.num, 1)
      [] f.kind = "AltText" -> from_halves(f.num, 2)
      [] f.kind = "Title" -> from_halves(f.num, 4)
      [] f.kind = "Transcript" -> from_halves(f.num, 3)
      [] f.kind = "Date" -> from_halves(f.num, 5)
      [] f.kind = "RawImage" -> from_halves(f.num, 6)

inode(f) ==
    CASE f.kind = "Root" -> 1
      [] f.kind = "Refresh" -> 2
      [] f.kind = "Credits" -> 3
      [] f.kind = "Image" -> from_halves(f.num, 0)
      [] f.kind = "MetaFolder" -> from_halves(f.num, 1)
      [] f.kind = "AltText" -> from_halves(f.num, 2)
      [] f.kind = "Title" -> from_halves(f.num, 3)
      [] f.kind = "Transcript" -> from_halves(f.num, 4)
      [] f.kind = "Date" -> from_halves(f.num, 5)
      [] f.kind = "RawImage" -> from_halves(f.num, 6)

---------------------------------------------------------------------------
(* Strings are sequences of one-character strings *)

DigitChars == <<"0", "1", "2", "3", "4", "5", "6", "7", "8", "9">>

S_comic == <<"c", "o", "m", "i", "c", "_">>
S_png == <<".", "p", "n", "g">>
S_info == <<"i", "n", "f", "o", "_">>
S_refresh == <<"r", "e", "f", "r", "e", "s", "h">>
S_credits == <<"c", "r", "e", "d", "i", "t", "s">>
S_alt == <<"a", "l", "t">>
S_title == <<"t", "i", "t", "l", "e">>
S_transcript == <<"t", "r", "a", "n", "s", "c", "r", "i", "p", "t">>
S_date == <<"d", "a", "t", "e">>
S_raw_image == <<"r", "a", "w", "_", "i", "m", "a", "g", "e">>
S_dot == <<".">>
S_dotdot == <<".", ".">>

starts_with(s, p) == Len(s) >= Len(p) /\ SubSeq(s, 1, Len(p)) = p
ends_with(s, p) == Len(s) >= Len(p) /\ SubSeq(s, Len(s) - Len(p) + 1, Len(s)) = p

\* The decimal digits of n, as Display for u32 writes them
RECURSIVE to_decimal(_)
to_decimal(n) ==
    IF n < 10 THEN << DigitChars[n + 1] >>
    ELSE to_decimal(n \div 10) \o << DigitChars[(n % 10) + 1] >>

\* format!("{:04}", n): zero-padded to a minimum width of four
format_04(n) ==
    LET d == to_decimal(n)
    IN  IF Len(d) >= 4 THEN d ELSE [i \in 1..(4 - Len(d)) |-> "0"] \o d

IsDigit(c) == \E i \in 1..10 : DigitChars[i] = c
DigitValue(c) == (CHOOSE i \in 1..10 : DigitChars[i] = c) - 1

\* The accumulation loop of str::parse::<u32>: an Option, None on a
\* character that is no digit and on overflow
RECURSIVE parse_digits(_, _)
parse_digits(s, acc) ==
    IF s = << >> THEN Some(acc)
    ELSE IF ~IsDigit(Head(s)) THEN None
    ELSE LET next == (acc * 10) + DigitValue(Head(s))
         IN  IF next > U32_MAX THEN None ELSE parse_digits(Tail(s), next)

\* str::parse::<u32>().ok(): an optional leading "+", then at least one digit
parse_u32(s) ==
    IF s = << >> THEN None
    ELSE IF Head(s) = "+" THEN (IF Tail(s) = << >> THEN None ELSE parse_digits(Tail(s), 0))
    ELSE parse_digits(s, 0)

\* from_filename with the two numbered patterns of Root exchanged
MutFromFilename(parent, filename) ==
    CASE parent.kind = "Root" ->
            IF starts_with(filename, S_comic) /\ ends_with(filename, S_png)
            THEN LET digits == SubSeq(filename, Len(S_comic) + 1, Len(filename) - Len(S_png))
                     num == parse_u32(digits)
                 IN  IF IsSome(num) THEN Some(MetaFolder(Unwrap(num))) ELSE None
            ELSE IF starts_with(filename, S_info)
            THEN LET digits == SubSeq(filename, Len(S_info) + 1, Len(filename))
                     num == parse_u32(digits)
                 IN  IF IsSome(num) THEN Some(Image(Unwrap(num))) ELSE None
            ELSE IF filename = S_refresh THEN Some(Refresh)
            ELSE IF filename = S_credits THEN Some(Credits)
            ELSE None
      [] parent.kind = "MetaFolder" ->
            CASE filename = S_alt -> Some(AltText(parent.num))
              [] filename = S_title -> Some(Title(parent.num))
              [] filename = S_transcript -> Some(Transcript(parent.num))
              [] filename = S_date -> Some(Date(parent.num))
              [] filename = S_raw_image -> Some(RawImage(parent.num))
              [] OTHER -> None
      [] OTHER -> None

from_filename(parent, filename) ==
    CASE parent.kind = "Root" ->
            IF starts_with(filename, S_comic) /\ ends_with(filename, S_png)
            THEN LET digits == SubSeq(filename, Len(S_comic) + 1, Len(filename) - Len(S_png))
                     num == parse_u32(digits)
                 IN  IF IsSome(num) THEN Some(Image(Unwrap(num))) ELSE None
            ELSE IF starts_with(filename, S_info)
            THEN LET digits == SubSeq(filename, Len(S_info) + 1, Len(filename))
                     num == parse_u32(digits)
                 IN  IF IsSome(num) THEN Some(MetaFolder(Unwrap(num))) ELSE None
            ELSE IF filename = S_refresh THEN Some(Refresh)
            ELSE IF filename = S_credits THEN Some(Credits)
            ELSE None
      [] parent.kind = "MetaFolder" ->
            CASE filename = S_alt -> Some(AltText(parent.num))
              [] filename = S_title -> Some(Title(parent.num))
              [] filename = S_transcript -> Some(Transcript(parent.num))
              [] filename = S_date -> Some(Date(parent.num))
              [] filename = S_raw_image -> Some(RawImage(parent.num))
              [] OTHER -> None
      [] OTHER -> None

filename(f) ==
    CASE f.kind = "Root" -> << >>
      [] f.kind = "Refresh" -> S_refresh
      [] f.kind = "Credits" -> S_credits
      [] f.kind = "Image" -> S_comic \o format_04(f.num) \o S_png
      [] f.kind = "MetaFolder" -> S_info \o format_04(f.num)
      [] f.kind = "AltText" -> S_alt
      [] f.kind = "Title" -> S_title
      [] f.kind = "Transcript" -> S_transcript
      [] f.kind = "Date" -> S_date
      [] f.kind = "RawImage" -> S_raw_image

filetype(f) ==
    IF f.kind \in {"Root", "MetaFolder"} THEN "Directory" ELSE "RegularFile"

triple(f) == Some(<<inode(f), filetype(f), filename(f)>>)

\* child_by_index with the last directory of Root left out of the listing
MutChildByIndex(f, index, num_comics) ==
    CASE f.kind = "Root" ->
            CASE index = 0 -> Some(<<inode(Root), filetype(Root), S_dot>>)
              [] index = 1 -> Some(<<inode(Root), filetype(Root), S_dotdot>>)
              [] index = 2 -> triple(Refresh)
              [] index = 3 -> triple(Credits)
              [] index > 3 /\ index <= num_comics + 3 ->
                    triple(Image((index - 3) % U32))
              [] index > num_comics + 3 /\ index < (2 * num_comics) + 3 ->
                    triple(MetaFolder((index - 3 - num_comics) % U32))
              [] OTHER -> None
      [] f.kind = "MetaFolder" ->
            IF f.num > num_comics THEN None
            ELSE CASE index = 0 -> Some(<<inode(MetaFolder(f.num)), filetype(MetaFolder(f.num)), S_dot>>)
                   [] index = 1 -> Some(<<inode(Root), filetype(Root), S_dotdot>>)
                   [] index = 2 -> triple(AltText(f.num))
                   [] index = 3 -> triple(Title(f.num))
                   [] index = 4 -> triple(Transcript(f.num))
                   [] index = 5 -> triple(Date(f.num))
                   [] index = 6 -> triple(RawImage(f.num))
                   [] OTHER -> None
      [] OTHER -> None

\* child_by_index without the bound on the comic number of a MetaFolder
MutMetaFolderChild(f, index, num_comics) ==
    CASE f.kind = "Root" ->
            CASE index = 0 -> Some(<<inode(Root), filetype(Root), S_dot>>)
              [] index = 1 -> Some(<<inode(Root), filetype(Root), S_dotdot>>)
              [] index = 2 -> triple(Refresh)
              [] index = 3 -> triple(Credits)
              [] index > 3 /\ index <= num_comics + 3 ->
                    triple(Image((index - 3) % U32))
              [] index > num_comics + 3 /\ index <= (2 * num_comics) + 3 ->
                    triple(MetaFolder((index - 3 - num_comics) % U32))
              [] OTHER -> None
      [] f.kind = "MetaFolder" ->
            CASE index = 0 -> Some(<<inode(MetaFolder(f.num)), filetype(MetaFolder(f.num)), S_dot>>)
              [] index = 1 -> Some(<<inode(Root), filetype(Root), S_dotdot>>)
              [] index = 2 -> triple(AltText(f.num))
              [] index = 3 -> triple(Title(f.num))
              [] index = 4 -> triple(Transcript(f.num))
              [] index = 5 -> triple(Date(f.num))
              [] index = 6 -> triple(RawImage(f.num))
              [] OTHER -> None
      [] OTHER -> None

child_by_index(f, index, num_comics) ==
    CASE f.kind = "Root" ->
            CASE index = 0 -> Some(<<inode(Root), filetype(Root), S_dot>>)
              [] index = 1 -> Some(<<inode(Root), filetype(Root), S_dotdot>>)
              [] index = 2 -> triple(Refresh)
              [] index = 3 -> triple(Credits)
              [] index > 3 /\ index <= num_comics + 3 ->
                    triple(Image((index - 3) % U32))
              [] index > num_comics + 3 /\ index <= (2 * num_comics) + 3 ->
                    triple(MetaFolder((index - 3 - num_comics) % U32))
              [] OTHER -> None
      [] f.kind = "MetaFolder" ->
            IF f.num > num_comics THEN None
            ELSE CASE index = 0 -> Some(<<inode(MetaFolder(f.num)), filetype(MetaFolder(f.num)), S_dot>>)
                   [] index = 1 -> Some(<<inode(Root), filetype(Root), S_dotdot>>)
                   [] index = 2 -> triple(AltText(f.num))
                   [] index = 3 -> triple(Title(f.num))
                   [] index = 4 -> triple(Transcript(f.num))
                   [] index = 5 -> triple(Date(f.num))
                   [] index = 6 -> triple(RawImage(f.num))
                   [] OTHER -> None
      [] OTHER -> None

---------------------------------------------------------------------------
(* struct Comic (xkcd.rs), as the handlers of fs/mod.rs use it, and the    *)
(* remote archive behind requests/api.rs.  Byte strings are sequences of   *)
(* byte values.                                                            *)

\* Comic::time: noon of the publication date
time(c) == <<c.year, c.month, c.day, 12>>

\* Comic::isodate, the content of the date file: year, month, day in order
isodate(c) == <<c.year, c.month, c.day>>

\* What https://xkcd.com/<n>/info.0.json answers, after ApiComic::try_into
RemoteComic(n) ==
    [num |-> n, year |-> 2006, month |-> 1, day |-> n,
     link |-> None, news |-> None,
     alt |-> [i \in 1..((n % 2) + 1) |-> 96 + i],
     title |-> << 64 + n >>,
     safe_title |-> << 64 + n >>,
     transcript |-> IF n % 2 = 1 THEN Some(<< 116, n >>) ELSE None,
     img_url |-> n,
     img_len |-> None]

\* The bytes behind img_url: the first byte tells the encoding
\* (80: a PNG, 67: a CMYK JPEG, 71: neither a PNG nor a JPEG)
RemoteImage(comic, encoding) ==
    CASE encoding = "png" -> << 80, comic.img_url >>
      [] encoding = "cmyk" -> << 67, comic.img_url >>
      [] encoding = "gif" -> << 71, comic.img_url >>

ImageOutcomes == {"png", "cmyk", "gif", "fail"}

\* One operation's environment: whether the remote answers, with which
\* image encoding, which comic is the latest, and whether each INSERT works
OkEnv ==
    [comic |-> TRUE, image |-> "png", latest |-> MaxNum,
     put_comic |-> TRUE, put_raw |-> TRUE, put_rendered |-> TRUE]

ComicEnvs ==
    {[OkEnv EXCEPT !.comic = c, !.put_comic = p] : c \in BOOLEAN, p \in BOOLEAN}

LatestEnvs ==
    {[OkEnv EXCEPT !.comic = c, !.put_comic = p, !.latest = l] :
        c \in BOOLEAN, p \in BOOLEAN, l \in 1..MaxNum}

RawEnvs ==
    {[e EXCEPT !.image = i, !.put_raw = p] :
        e \in ComicEnvs, i \in ImageOutcomes, p \in BOOLEAN}

RenderEnvs ==
    {[e EXCEPT !.put_rendered = p] : e \in RawEnvs, p \in BOOLEAN}

\* api::get_comic
api_get_comic(num, env) ==
    IF ~env.comic THEN None
    ELSE IF num = None THEN Some(RemoteComic(env.latest))
    ELSE IF Unwrap(num) \in 1..MaxNum THEN Some(RemoteComic(Unwrap(num)))
    ELSE None

\* api::get_image
api_get_image(comic, env) ==
    IF env.image = "fail" THEN None ELSE Some(RemoteImage(comic, env.image))

---------------------------------------------------------------------------
(* image::render, by its outcome *)

\* create_image_surface: a PNG or an RGB JPEG decodes, a CMYK JPEG is an
\* Err, and bytes that are neither PNG nor JPEG reach the panic! at its end
render(comic, raw_image) ==
    CASE raw_image[1] = 80 ->
            [kind |-> "ok",
             image |-> << 137 >> \o comic.safe_title \o Tail(raw_image) \o comic.alt]
      [] raw_image[1] = 67 -> [kind |-> "err", image |-> << >>]
      [] OTHER -> [kind |-> "panic", image |-> << >>]

---------------------------------------------------------------------------
(* requests/database.rs: three tables keyed by comic number *)

\* The columns INSERT OR REPLACE INTO comics writes
comic_to_row(c) ==
    [num |-> c.num, year |-> c.year, month |-> c.month, day |-> c.day,
     link |-> c.link, news |-> c.news, alt |-> c.alt, title |-> c.title,
     safe_title |-> c.safe_title, img_url |-> c.img_url]

\* row_to_comic: the comics table has no transcript column
row_to_comic(row) ==
    [num |-> row.num, year |-> row.year, month |-> row.month, day |-> row.day,
     link |-> row.link, news |-> row.news, alt |-> row.alt, title |-> row.title,
     safe_title |-> row.safe_title, transcript |-> None,
     img_url |-> row.img_url, img_len |-> None]

\* put as a REPLACE of the whole table by the one row
MutPut(table, num, value) == [k \in {num} |-> value]

\* INSERT OR REPLACE of the row num
put(table, num, value) ==
    [k \in (DOMAIN table) \cup {num} |-> IF k = num THEN value ELSE table[k]]

get_comic(s, num) ==
    IF num \in DOMAIN s.comics THEN Some(row_to_comic(s.comics[num])) ELSE None

get_raw_image(s, num) ==
    IF num \in DOMAIN s.raw_images THEN Some(s.raw_images[num]) ELSE None

get_rendered_image(s, num) ==
    IF num \in DOMAIN s.rendered_images THEN Some(s.rendered_images[num]) ELSE None

\* SELECT max(num) FROM comics, 0 when the table is empty
get_comics_count(s) ==
    IF DOMAIN s.comics = {} THEN 0
    ELSE CHOOSE m \in DOMAIN s.comics : \A k \in DOMAIN s.comics : k <= m

\* One call made while serving an operation
Ev(name, num, ok) == [num |-> num, ok |-> ok, ev |-> name]
Log(s, e) == [s EXCEPT !.trace = Append(s.trace, e)]
Panic(s) == [s EXCEPT !.panicked = TRUE]

\* insert_comic whose failed INSERT OR REPLACE has removed the row it was to
\* replace
MutInsertComic(s, comic, env) ==
    LET s1 == Log(s, Ev("put_comic", comic.num, env.put_comic))
    IN  IF env.put_comic
        THEN [s1 EXCEPT !.comics = put(s.comics, comic.num, comic_to_row(comic))]
        ELSE [s1 EXCEPT !.comics = [k \in (DOMAIN s.comics) \ {comic.num} |-> s.comics[k]]]

insert_comic(s, comic, env) ==
    LET s1 == Log(s, Ev("put_comic", comic.num, env.put_comic))
    IN  IF env.put_comic
        THEN [s1 EXCEPT !.comics = put(s.comics, comic.num, comic_to_row(comic))]
        ELSE s1

insert_raw_image(s, num, data, env) ==
    LET s1 == Log(s, Ev("put_raw", num, env.put_raw))
    IN  IF env.put_raw
        THEN [s1 EXCEPT !.raw_images = put(s.raw_images, num, data)]
        ELSE s1

insert_rendered_image(s, num, data, env) ==
    LET s1 == Log(s, Ev("put_rendered", num, env.put_rendered))
    IN  IF env.put_rendered
        THEN [s1 EXCEPT !.rendered_images = put(s.rendered_images, num, data)]
        ELSE s1

---------------------------------------------------------------------------
(* requests/mod.rs: RequestMode and XkcdClient.  A request takes the       *)
(* tables and the trace so far (s) and gives them back with its value; a   *)
(* request made after a panic does nothing.  Each request is written as    *)
(* its tiers in order: the cache read, the remote fetch, the cache write.  *)

network(mode) == mode \in {"Normal", "BustCache"}

\* cache() with the BustCache arm answering true
MutCache(mode) == mode \in {"Normal", "NoNetwork", "BustCache", "VeryFast"}

cache(mode) == mode \in {"Normal", "NoNetwork", "VeryFast"}
render_allowed(mode) == mode \in {"Normal", "NoNetwork", "BustCache"}

Ret(s, val) == [s |-> s, val |-> val]

\* request_latest_comic, Ok(c) of api::get_comic: insert_comic(..).ok()
latest_fetched(s, fetched, env) ==
    IF IsSome(fetched) THEN Ret(insert_comic(s, Unwrap(fetched), env), fetched)
    ELSE Ret(s, None)

request_latest_comic(s, mode, env) ==
    IF s.panicked THEN Ret(s, None)
    ELSE IF cache(mode)
    THEN \* database::get_latest_comic is unimplemented!()
         Ret(Panic(Log(s, Ev("get_latest", 0, FALSE))), None)
    ELSE IF network(mode)
    THEN latest_fetched(Log(s, Ev("api_latest", 0, env.comic)), api_get_comic(None, env), env)
    ELSE Ret(s, None)

\* request_comic, Ok(c) of api::get_comic: insert_comic(..).unwrap()
comic_stored(s, fetched, env) ==
    IF env.put_comic THEN Ret(s, fetched) ELSE Ret(Panic(s), None)

comic_fetched(s, fetched, env) ==
    IF IsSome(fetched) THEN comic_stored(insert_comic(s, Unwrap(fetched), env), fetched, env)
    ELSE Ret(s, None)

\* request_comic, the network tier
comic_from_network(s, num, mode, env) ==
    IF network(mode)
    THEN comic_fetched(Log(s, Ev("api_comic", num, IsSome(api_get_comic(Some(num), env)))),
                       api_get_comic(Some(num), env), env)
    ELSE Ret(s, None)

\* The cache tier of request_comic going on to the network on a hit
MutComicFromCache(s, hit, num, mode, env) == comic_from_network(s, num, mode, env)

\* request_comic, after the cache tier
comic_from_cache(s, hit, num, mode, env) ==
    IF IsSome(hit) THEN Ret(s, hit) ELSE comic_from_network(s, num, mode, env)

request_comic(s, num, mode, env) ==
    IF s.panicked THEN Ret(s, None)
    ELSE IF cache(mode)
    THEN comic_from_cache(Log(s, Ev("get_comic", num, IsSome(get_comic(s, num)))),
                          get_comic(s, num), num, mode, env)
    ELSE comic_from_network(s, num, mode, env)

\* The fetched raw image returned without the INSERT
MutRawFetched(s, fetched, num, env) == Ret(s, fetched)

\* request_raw_image, Ok(i) of api::get_image: insert_raw_image(..).ok()
raw_fetched(s, fetched, num, env) ==
    IF IsSome(fetched) THEN Ret(insert_raw_image(s, num, Unwrap(fetched), env), fetched)
    ELSE Ret(s, None)

\* request_raw_image, the network tier
raw_from_network(s, comic, mode, env) ==
    IF network(mode)
    THEN raw_fetched(Log(s, Ev("api_image", comic.num, IsSome(api_get_image(comic, env)))),
                     api_get_image(comic, env), comic.num, env)
    ELSE Ret(s, None)

\* request_raw_image, after the cache tier
raw_from_cache(s, hit, comic, mode, env) ==
    IF IsSome(hit) THEN Ret(s, hit) ELSE raw_from_network(s, comic, mode, env)

request_raw_image(s, comic, mode, env) ==
    IF s.panicked THEN Ret(s, None)
    ELSE IF cache(mode)
    THEN raw_from_cache(Log(s, Ev("get_raw", comic.num, IsSome(get_raw_image(s, comic.num)))),
                        get_raw_image(s, comic.num), comic, mode, env)
    ELSE raw_from_network(s, comic, mode, env)

\* request_rendered_image, the match on crate::image::render
rendered(s, r, comic, env) ==
    CASE r.kind = "ok" -> Ret(insert_rendered_image(s, comic.num, r.image, env), Some(r.image))
      [] r.kind = "err" -> Ret(s, None)
      [] OTHER -> Ret(Panic(s), None)

\* request_rendered_image, after request_raw_image(..)?
render_raw(raw, comic, env) ==
    IF IsSome(raw.val)
    THEN rendered(Log(raw.s, Ev("render", comic.num, render(comic, Unwrap(raw.val)).kind = "ok")),
                  render(comic, Unwrap(raw.val)), comic, env)
    ELSE Ret(raw.s, None)

\* request_rendered_image, the render tier
rendered_from_render(s, comic, mode, env) ==
    IF render_allowed(mode) THEN render_raw(request_raw_image(s, comic, mode, env), comic, env)
    ELSE Ret(s, None)

\* request_rendered_image, after the cache tier
rendered_from_cache(s, hit, comic, mode, env) ==
    IF IsSome(hit) THEN Ret(s, hit) ELSE rendered_from_render(s, comic, mode, env)

request_rendered_image(s, comic, mode, env) ==
    IF s.panicked THEN Ret(s, None)
    ELSE IF cache(mode)
    THEN rendered_from_cache(
            Log(s, Ev("get_rendered", comic.num, IsSome(get_rendered_image(s, comic.num)))),
            get_rendered_image(s, comic.num), comic, mode, env)
    ELSE rendered_from_render(s, comic, mode, env)

\* comic.and_then(|c| self.client.request_rendered_image(&c, None, mode))
then_rendered_image(comic, mode, env) ==
    IF IsSome(comic.val) THEN request_rendered_image(comic.s, Unwrap(comic.val), mode, env)
    ELSE Ret(comic.s, None)

\* comic.and_then(|c| self.client.request_raw_image(&c, None, mode))
then_raw_image(comic, mode, env) ==
    IF IsSome(comic.val) THEN request_raw_image(comic.s, Unwrap(comic.val), mode, env)
    ELSE Ret(comic.s, None)

---------------------------------------------------------------------------
(* fs/mod.rs: XkcdFs *)

EPOCH == <<1970, 1, 1, 0>>
BLOCK_SIZE == 512
DIR_SIZE == 4096
DEFAULT_SIZE == 4096
DEFAULT_PERM == 292     \* 0o444
REFRESH_PERM == 438     \* 0o666

\* include_str!("credits.txt")
CREDITS_DATA == << 120, 107 >>

blocks(size) == (size + BLOCK_SIZE - 1) \div BLOCK_SIZE

\* gen_fh that hands out the value after the current one
MutGenFh(fh) == [next_fh |-> (fh + 1) % FH, fh |-> (fh + 1) % FH]

\* self.next_fh.wrapping_add(1)
gen_fh(fh) == [next_fh |-> (fh + 1) % FH, fh |-> fh]

FileAttr(file, size, nblocks, t, perm) ==
    [kind |-> filetype(file), ino |-> inode(file), blocks |-> nblocks, size |-> size,
     perm |-> perm, atime |-> t, mtime |-> t, ctime |-> t, crtime |-> t, nlink |-> 0]

\* The closure attrs of file_attr
attrs(file, size, t) ==
    FileAttr(file,
             IF IsSome(size) THEN Unwrap(size) ELSE DEFAULT_SIZE,
             blocks(IF IsSome(size) THEN Unwrap(size) ELSE DEFAULT_SIZE),
             IF IsSome(t) THEN Unwrap(t) ELSE EPOCH,
             DEFAULT_PERM)

\* comic_time that never has a time
MutComicTime(comic) == None

\* comic.map(|c| c.time())
comic_time(comic) == IF IsSome(comic) THEN Some(time(Unwrap(comic))) ELSE None

\* The text a metadata file serves from a comic
text_of(kind, c) ==
    CASE kind = "AltText" -> Some(c.alt)
      [] kind = "Title" -> Some(c.title)
      [] kind = "Transcript" -> c.transcript
      [] kind = "Date" -> Some(isodate(c))

len_of(bytes) == IF IsSome(bytes) THEN Some(Len(Unwrap(bytes))) ELSE None

\* file_attr requesting with Normal instead of VeryFast
MutAttrMode == "Normal"

\* The request mode file_attr passes to the orchestrator
AttrMode == "VeryFast"

\* file_attr, the arms for Image and RawImage once the bytes were requested
attr_of_bytes(file, comic, bytes) ==
    Ret(bytes.s, Some(attrs(file, len_of(bytes.val), comic_time(comic.val))))

\* file_attr, the arms of the files of a comic once the comic was requested
attr_of_comic(file, comic, env) ==
    CASE file.kind = "Image" ->
            attr_of_bytes(file, comic, then_rendered_image(comic, AttrMode, env))
      [] file.kind = "RawImage" ->
            attr_of_bytes(file, comic, then_raw_image(comic, AttrMode, env))
      [] file.kind = "MetaFolder" ->
            Ret(comic.s,
                Some(FileAttr(file, DIR_SIZE, blocks(DIR_SIZE),
                              IF IsSome(comic.val) THEN time(Unwrap(comic.val)) ELSE EPOCH,
                              DEFAULT_PERM)))
      [] OTHER ->
            Ret(comic.s,
                Some(attrs(file,
                           IF IsSome(comic.val)
                           THEN len_of(text_of(file.kind, Unwrap(comic.val))) ELSE None,
                           comic_time(comic.val))))

file_attr(s, file, env) ==
    CASE file.kind = "Root" ->
            Ret(s, Some(FileAttr(file, DIR_SIZE, blocks(DIR_SIZE), EPOCH, DEFAULT_PERM)))
      [] file.kind = "Refresh" ->
            Ret(s, Some(FileAttr(file, 0, 1, EPOCH, REFRESH_PERM)))
      [] file.kind = "Credits" ->
            Ret(s, Some(attrs(file, Some(Len(CREDITS_DATA)), None)))
      [] OTHER ->
            attr_of_comic(file, request_comic(s, file.num, AttrMode, env), env)

\* file.and_then(|f| self.file_attr(req, f))
then_file_attr(s, file, env) ==
    IF IsSome(file) THEN file_attr(s, Unwrap(file), env) ELSE Ret(s, None)

\* Replies
ReplyError(code) == [kind |-> "error", val |-> code]
ReplyAttr(attr) == [kind |-> "attr", val |-> attr]
ReplyEntry(attr) == [kind |-> "entry", val |-> attr]
ReplyData(bytes) == [kind |-> "data", val |-> bytes]
ReplyOpened(fh) == [kind |-> "opened", val |-> fh]
ReplyWritten(size) == [kind |-> "written", val |-> size]
ReplyDirectory(entries) == [kind |-> "directory", val |-> entries]
NoReply == [kind |-> "none", val |-> 0]

\* What a handler leaves behind: the tables and trace, its reply, next_fh
Out(s, r, fh) == [next_fh |-> fh, reply |-> r, s |-> s]

\* getattr answering a missing attribute with EREMOTEIO
MutAttrReply(attr, fh) ==
    IF IsSome(attr.val) THEN Out(attr.s, ReplyAttr(Unwrap(attr.val)), fh)
    ELSE Out(attr.s, ReplyError("EREMOTEIO"), fh)

\* getattr, the match on attr
attr_reply(attr, fh) ==
    IF IsSome(attr.val) THEN Out(attr.s, ReplyAttr(Unwrap(attr.val)), fh)
    ELSE Out(attr.s, ReplyError("ENOENT"), fh)

getattr(s, fh, ino, env) == attr_reply(then_file_attr(s, from_inode(ino), env), fh)

\* readdir_loop handing out the index of an entry as its next-offset
RECURSIVE MutReaddirLoop(_, _, _, _)
MutReaddirLoop(file, current, comic_count, room) ==
    IF ~IsSome(child_by_index(file, current, comic_count)) \/ room = 0 THEN << >>
    ELSE << <<Unwrap(child_by_index(file, current, comic_count))[1], current,
              Unwrap(child_by_index(file, current, comic_count))[2],
              Unwrap(child_by_index(file, current, comic_count))[3]>> >>
         \o MutReaddirLoop(file, current + 1, comic_count, room - 1)

\* The loop of readdir: the entries added from index current on, when the
\* reply buffer has room for room more entries
RECURSIVE readdir_loop(_, _, _, _)
readdir_loop(file, current, comic_count, room) ==
    IF ~IsSome(child_by_index(file, current, comic_count)) \/ room = 0 THEN << >>
    ELSE << <<Unwrap(child_by_index(file, current, comic_count))[1], current + 1,
              Unwrap(child_by_index(file, current, comic_count))[2],
              Unwrap(child_by_index(file, current, comic_count))[3]>> >>
         \o readdir_loop(file, current + 1, comic_count, room - 1)

\* readdir, once the inode is decoded
readdir_file(s, fh, file, offset, room) ==
    IF ~IsSome(file) THEN Out(s, ReplyError("ENOENT"), fh)
    ELSE IF Unwrap(file).kind \notin {"Root", "MetaFolder"}
    THEN Out(s, ReplyError("ENOTDIR"), fh)
    ELSE Out(Log(s, Ev("get_comics_count", 0, TRUE)),
             ReplyDirectory(readdir_loop(Unwrap(file), offset % U64,
                                         get_comics_count(s), room)),
             fh)

readdir(s, fh, ino, offset, room) == readdir_file(s, fh, from_inode(ino), offset, room)

\* parent.and_then(|p| File::from_filename(&p, name))
then_from_filename(parent, name) ==
    IF IsSome(parent) THEN from_filename(Unwrap(parent), name) ELSE None

\* lookup answering EREMOTEIO for what it cannot resolve
MutEntryReply(attr, fh) ==
    IF IsSome(attr.val) THEN Out(attr.s, ReplyEntry(Unwrap(attr.val)), fh)
    ELSE Out(attr.s, ReplyError("EREMOTEIO"), fh)

\* lookup, the match on attr
entry_reply(attr, fh) ==
    IF IsSome(attr.val) THEN Out(attr.s, ReplyEntry(Unwrap(attr.val)), fh)
    ELSE Out(attr.s, ReplyError("ENOENT"), fh)

lookup(s, fh, parent_ino, name, env) ==
    entry_reply(then_file_attr(s, then_from_filename(from_inode(parent_ino), name), env), fh)

\* The closure reply_from_slice of read.  bytes is Ok(slice) or Err(code);
\* offset.try_into().unwrap() panics on a negative offset
Ok(bytes) == [ok |-> TRUE, bytes |-> bytes, code |-> ""]
Err(code) == [ok |-> FALSE, bytes |-> << >>, code |-> code]
ok_or(bytes, code) == IF IsSome(bytes) THEN Ok(Unwrap(bytes)) ELSE Err(code)
Min(a, b) == IF a <= b THEN a ELSE b

\* reply_from_slice, once range_end is computed
reply_range(bytes, offset, range_end) ==
    IF offset >= Len(bytes)
    THEN [reply |-> ReplyError("EINVAL"), panic |-> FALSE]
    ELSE IF range_end <= offset
    THEN [reply |-> ReplyError("EINVAL"), panic |-> FALSE]
    ELSE [reply |-> ReplyData(SubSeq(bytes, offset + 1, range_end)), panic |-> FALSE]

reply_from_slice(bytes, offset, size) ==
    IF ~bytes.ok THEN [reply |-> ReplyError(bytes.code), panic |-> FALSE]
    ELSE IF offset < 0 THEN [reply |-> NoReply, panic |-> TRUE]
    ELSE reply_range(bytes.bytes, offset, Min(offset + size, Len(bytes.bytes)))

\* The request mode read and open pass to the orchestrator
ReadMode == "Normal"

\* Option<Vec<u8>>.ok_or(EREMOTEIO), with the tables and trace
or_eremoteio(bytes) == Ret(bytes.s, ok_or(bytes.val, "EREMOTEIO"))

\* read, the arms of the files of a comic once the comic was requested
content_of_comic(f, comic, env) ==
    CASE f.kind = "Image" -> or_eremoteio(then_rendered_image(comic, ReadMode, env))
      [] f.kind = "RawImage" -> or_eremoteio(then_raw_image(comic, ReadMode, env))
      [] OTHER ->
            Ret(comic.s,
                ok_or(IF IsSome(comic.val) THEN text_of(f.kind, Unwrap(comic.val)) ELSE None,
                      "EREMOTEIO"))

\* read, the match on file: what is handed to reply_from_slice
read_content(s, file, env) ==
    IF ~IsSome(file) THEN Ret(s, Err("ENOENT"))
    ELSE CASE Unwrap(file).kind = "Credits" -> Ret(s, Ok(CREDITS_DATA))
           [] Unwrap(file).kind = "Refresh" -> Ret(s, Ok(<< >>))
           [] Unwrap(file).kind \in {"Root", "MetaFolder"} -> Ret(s, Err("EISDIR"))
           [] OTHER ->
                content_of_comic(Unwrap(file),
                                 request_comic(s, Unwrap(file).num, ReadMode, env), env)

\* read, the reply to the content
read_reply(content, r, fh) ==
    IF content.s.panicked THEN Out(content.s, NoReply, fh)
    ELSE IF r.panic THEN Out(Panic(content.s), NoReply, fh)
    ELSE Out(content.s, r.reply, fh)

\* read, the content handed to reply_from_slice
read_slice(content, fh, offset, size) ==
    read_reply(content, reply_from_slice(content.val, offset, size), fh)

read(s, fh, ino, offset, size, env) ==
    read_slice(read_content(s, from_inode(ino), env), fh, offset, size)

\* reply.opened(self.gen_fh(), DEFAULT_FLAGS)
opened(s, fh) == Out(s, ReplyOpened(gen_fh(fh).fh), gen_fh(fh).next_fh)

\* open, the match on what the orchestrator gave
opened_if_some(r, fh) ==
    IF IsSome(r.val) THEN opened(r.s, fh) ELSE Out(r.s, ReplyError("EREMOTEIO"), fh)

\* open, the arms of the files of a comic once the comic was requested
open_of_comic(f, comic, fh, env) ==
    CASE f.kind = "Image" -> opened_if_some(then_rendered_image(comic, ReadMode, env), fh)
      [] f.kind = "RawImage" -> opened_if_some(then_raw_image(comic, ReadMode, env), fh)
      [] OTHER -> opened_if_some(comic, fh)

\* open, the match on file
open_file(s, fh, file, env) ==
    IF ~IsSome(file) THEN Out(s, ReplyError("ENOENT"), fh)
    ELSE CASE Unwrap(file).kind \in {"Root", "MetaFolder"} -> Out(s, ReplyError("EISDIR"), fh)
           [] Unwrap(file).kind \in {"Refresh", "Credits"} -> opened(s, fh)
           [] OTHER ->
                open_of_comic(Unwrap(file),
                              request_comic(s, Unwrap(file).num, ReadMode, env), fh, env)

open(s, fh, ino, env) == open_file(s, fh, from_inode(ino), env)

\* the refresh requesting with Normal instead of BustCache
MutRefreshMode == "Normal"

\* The request mode write and setattr pass to request_latest_comic
RefreshMode == "BustCache"

\* write taking Credits for a second refresh file
MutWriteFile(s, fh, file, data, env) ==
    IF ~IsSome(file) THEN Out(s, ReplyError("ENOENT"), fh)
    ELSE IF Unwrap(file).kind \in {"Refresh", "Credits"}
    THEN Out(request_latest_comic(s, RefreshMode, env).s, ReplyWritten(Len(data) % U32), fh)
    ELSE Out(s, ReplyError("EPERM"), fh)

\* write, the match on file
write_file(s, fh, file, data, env) ==
    IF ~IsSome(file) THEN Out(s, ReplyError("ENOENT"), fh)
    ELSE IF Unwrap(file) = Refresh
    THEN Out(request_latest_comic(s, RefreshMode, env).s, ReplyWritten(Len(data) % U32), fh)
    ELSE Out(s, ReplyError("EPERM"), fh)

write(s, fh, ino, data, env) == write_file(s, fh, from_inode(ino), data, env)

\* setattr applying the requested mode to the attributes it replies
MutSetattr(s, fh, ino, wanted, env) ==
    LET out == getattr(IF from_inode(ino) = Some(Refresh)
                       THEN request_latest_comic(s, RefreshMode, env).s ELSE s,
                       fh, ino, env)
    IN  IF out.reply.kind = "attr" /\ IsSome(wanted.mode)
        THEN [out EXCEPT !.reply.val.perm = Unwrap(wanted.mode)]
        ELSE out

\* setattr: wanted is what the caller asks to set (_mode, _uid, _gid, _size,
\* _atime, _mtime), which the handler does not read
setattr(s, fh, ino, wanted, env) ==
    getattr(IF from_inode(ino) = Some(Refresh)
            THEN request_latest_comic(s, RefreshMode, env).s ELSE s,
            fh, ino, env)

---------------------------------------------------------------------------
(* The filesystem as a state machine: the session loop of fuse::mount      *)
(* takes one request at a time on one thread (the handlers take &mut       *)
(* self), the handler serves it and replies, and the loop goes back to     *)
(* waiting for the next request.  A panic ends the process.                *)

\* Comic numbers the operations are tried on: 0, the archive's, and one the
\* archive does not hold
Uppers == (0..MaxNum) \cup {42}
Inodes == {from_halves(u, l) : u \in Uppers, l \in 0..MaxLow}
Offsets == (-1)..MaxOff
Sizes == (0..MaxSize) \cup {U32_MAX}
Datas == UNION {[1..k -> {48, 49}] : k \in 0..MaxData}
Rooms == (1..MaxRoom) \cup {U32_MAX}
Names ==
    {filename([kind |-> k, num |-> n]) : k \in ComicKinds, n \in Uppers}
    \cup {S_refresh, S_credits, << >>, S_dot,
          S_comic \o <<"1">> \o S_png, S_info \o <<"1">>,
          S_comic \o S_png, S_info, S_comic \o <<"x">> \o S_png,
          S_comic \o <<"+", "2">> \o S_png, S_info \o <<"3", "2", "7", "6", "8">>}

\* The environments an operation on this inode can tell apart
ContentEnvs(ino) ==
    LET file == from_inode(ino)
    IN  IF ~IsSome(file) THEN {OkEnv}
        ELSE CASE Unwrap(file).kind = "Image" -> RenderEnvs
               [] Unwrap(file).kind = "RawImage" -> RawEnvs
               [] Unwrap(file).kind \in {"AltText", "Title", "Transcript", "Date"} -> ComicEnvs
               [] OTHER -> {OkEnv}

RefreshEnvs(ino) == IF from_inode(ino) = Some(Refresh) THEN LatestEnvs ELSE {OkEnv}

Call(op, ino) ==
    [ino |-> ino, name |-> << >>, data |-> << >>, size |-> 0, room |-> 0,
     offset |-> 0, op |-> op]

\* What a setattr asks to set: nothing, a chmod 0777 with a chown to root,
\* a truncation to MaxSize bytes with both times set
Unrequested ==
    [mode |-> None, size |-> None, atime |-> None, mtime |-> None,
     uid |-> None, gid |-> None]
WantedAttrs ==
    {Unrequested,
     [Unrequested EXCEPT !.mode = Some(511), !.uid = Some(0), !.gid = Some(0)],
     [Unrequested EXCEPT !.size = Some(MaxSize), !.atime = Some(EPOCH), !.mtime = Some(EPOCH)]}

SetattrCall(ino, wanted) ==
    [ino |-> ino, name |-> << >>, data |-> << >>, size |-> 0, room |-> 0,
     offset |-> 0, wanted |-> wanted, op |-> "setattr"]

\* The handler's view of the state when an operation arrives
Now ==
    [comics |-> comics, raw_images |-> raw_images, rendered_images |-> rendered_images,
     trace |-> << >>, panicked |-> FALSE]

\* The session loop waits for a request
Idle == Call("idle", 0)

\* The session loop has a request to take
Ready == ~crashed /\ call = Idle

\* The operation c is served with outcome out
Serve(c, out) ==
    /\ \E o \in {out} :
        /\ call' = c
        /\ comics' = o.s.comics
        /\ raw_images' = o.s.raw_images
        /\ rendered_images' = o.s.rendered_images
        /\ trace' = o.s.trace
        /\ crashed' = o.s.panicked
        /\ reply' = IF o.s.panicked THEN NoReply ELSE o.reply
        /\ next_fh' = o.next_fh

\* The tables of a store that database::setup has just created
Fresh ==
    [comics |-> << >>, raw_images |-> << >>, rendered_images |-> << >>,
     trace |-> << >>, panicked |-> FALSE]

\* main asks for the latest comic before it mounts, and ends without
\* mounting when there is none
main_latest(env) == request_latest_comic(Fresh, "BustCache", env)

\* The filesystem is mounted: the store holds what main's request left
Init ==
    /\ \E env \in LatestEnvs :
        /\ IsSome(main_latest(env).val)
        /\ comics = main_latest(env).s.comics
    /\ raw_images = << >>
    /\ rendered_images = << >>
    /\ next_fh = 1
    /\ crashed = FALSE
    /\ call = Idle
    /\ reply = NoReply
    /\ trace = << >>

Getattr ==
    /\ Ready
    /\ \E ino \in Inodes :
        Serve(Call("getattr", ino), getattr(Now, next_fh, ino, OkEnv))

Readdir ==
    /\ Ready
    /\ \E ino \in Inodes, offset \in Offsets, room \in Rooms :
        Serve([Call("readdir", ino) EXCEPT !.offset = offset, !.room = room],
              readdir(Now, next_fh, ino, offset, room))

Lookup ==
    /\ Ready
    /\ \E ino \in Inodes, name \in Names :
        Serve([Call("lookup", ino) EXCEPT !.name = name],
              lookup(Now, next_fh, ino, name, OkEnv))

Read ==
    /\ Ready
    /\ \E ino \in Inodes, offset \in Offsets, size \in Sizes :
        \E env \in ContentEnvs(ino) :
            Serve([Call("read", ino) EXCEPT !.offset = offset, !.size = size],
                  read(Now, next_fh, ino, offset, size, env))

Open ==
    /\ Ready
    /\ next_fh < MaxFh
    /\ \E ino \in Inodes :
        \E env \in ContentEnvs(ino) :
            Serve(Call("open", ino), open(Now, next_fh, ino, env))

Write ==
    /\ Ready
    /\ \E ino \in Inodes, data \in Datas :
        \E env \in RefreshEnvs(ino) :
            Serve([Call("write", ino) EXCEPT !.data = data],
                  write(Now, next_fh, ino, data, env))

Setattr ==
    /\ Ready
    /\ \E ino \in Inodes, wanted \in WantedAttrs :
        \E env \in RefreshEnvs(ino) :
            Serve(SetattrCall(ino, wanted), setattr(Now, next_fh, ino, wanted, env))

\* The reply is delivered and the session loop waits for the next request
NextRequest ==
    /\ ~crashed
    /\ call # Idle
    /\ call' = Idle
    /\ reply' = NoReply
    /\ trace' = << >>
    /\ UNCHANGED <<comics, raw_images, rendered_images, next_fh, crashed>>

Next ==
    Getattr \/ Readdir \/ Lookup \/ Read \/ Open \/ Write \/ Setattr \/ NextRequest

Spec == Init /\ [][Next]_vars

---------------------------------------------------------------------------
(* The address space on its own: the functions of fs/file.rs applied to    *)
(* inputs drawn from AddrFiles and AddrInodes                              *)

AddrNums == (0..MaxNum) \cup {42, 1234, U32_MAX}
AddrFiles ==
    {Root, Refresh, Credits} \cup {[kind |-> k, num |-> n] : k \in ComicKinds, n \in AddrNums}
AddrInodes == {from_halves(u, l) : u \in AddrNums, l \in (0..MaxLow) \cup {U32_MAX}}

\* The directory an identity is listed in, None for Root (spec.md 4.1)
ParentOf(f) ==
    CASE f.kind = "Root" -> None
      [] f.kind \in {"Refresh", "Credits", "Image", "MetaFolder"} -> Some(Root)
      [] OTHER -> Some(MetaFolder(f.num))

Applied(c, r) ==
    /\ call = Idle
    /\ call' = c
    /\ reply' = r
    /\ UNCHANGED <<comics, raw_images, rendered_images, next_fh, crashed, trace>>

\* file.inode(), then File::from_inode of it
EncodeDecode ==
    \E f \in AddrFiles :
        Applied([file |-> f, op |-> "encode_decode"],
                [ino |-> inode(f), file |-> from_inode(inode(f))])

\* File::from_inode(ino), then inode() of the identity it gave
DecodeEncode ==
    \E ino \in AddrInodes :
        Applied([ino |-> ino, op |-> "decode_encode"],
                [ino |-> IF IsSome(from_inode(ino))
                         THEN Some(inode(Unwrap(from_inode(ino)))) ELSE None,
                 file |-> from_inode(ino)])

\* file.filename(), then File::from_filename of it in the file's directory
NameParse ==
    \E f \in AddrFiles :
        /\ IsSome(ParentOf(f))
        /\ Applied([file |-> f, op |-> "name_parse"],
                   [name |-> filename(f),
                    file |-> from_filename(Unwrap(ParentOf(f)), filename(f))])

\* The names handed to from_filename: the names of Names, and numbered
\* names of Root with other numerals
ParsedNames ==
    Names \cup {S_comic \o format_04(n) \o S_png : n \in {42, 1234, U32_MAX, U32}}
          \cup {S_info \o to_decimal(n) : n \in {0, 42, U32_MAX, U32}}
          \cup {S_info \o <<"+", "2">>, S_info \o <<"1">> \o S_png, S_comic \o <<"1">>,
                S_alt \o <<"1">>, S_dotdot}

FromFilenameCall(parent, name) == [name |-> name, file |-> parent, op |-> "from_filename"]

\* File::from_filename(parent, name) for any identity as the parent
FromFilename ==
    \E parent \in AddrFiles, name \in ParsedNames :
        Applied(FromFilenameCall(parent, name), from_filename(parent, name))

NextAddr == EncodeDecode \/ DecodeEncode \/ NameParse \/ FromFilename

SpecAddr == Init /\ [][NextAddr]_vars

---------------------------------------------------------------------------
(* XkcdClient on its own: its public requests made one after another on    *)
(* one store, under every RequestMode, from the store database::setup      *)
(* creates.  call is the last request, reply what it returned, trace the   *)
(* calls it made; a panic ends the process.                                *)

Modes == {"Normal", "NoNetwork", "BustCache", "VeryFast"}

\* The comics a caller holds: what api::get_comic or database::get_comic gave
KnownComics ==
    {RemoteComic(n) : n \in 1..MaxNum}
    \cup {row_to_comic(comic_to_row(RemoteComic(n))) : n \in 1..MaxNum}

\* What request_raw_image and request_rendered_image can tell apart: they
\* make no call for comic metadata
ImageEnvs == {[OkEnv EXCEPT !.image = i, !.put_raw = p] : i \in ImageOutcomes, p \in BOOLEAN}
RenderedEnvs == {[e EXCEPT !.put_rendered = p] : e \in ImageEnvs, p \in BOOLEAN}

Request(op, num, mode) == [num |-> num, mode |-> mode, op |-> op]

\* The request c returns with the outcome out
Returns(c, out) ==
    /\ \E o \in {out} :
        /\ call' = c
        /\ comics' = o.s.comics
        /\ raw_images' = o.s.raw_images
        /\ rendered_images' = o.s.rendered_images
        /\ trace' = o.s.trace
        /\ crashed' = o.s.panicked
        /\ reply' = o.val
    /\ UNCHANGED next_fh

\* The store XkcdClient::new opens
InitClient ==
    /\ comics = << >>
    /\ raw_images = << >>
    /\ rendered_images = << >>
    /\ next_fh = 1
    /\ crashed = FALSE
    /\ call = Idle
    /\ reply = NoReply
    /\ trace = << >>

\* mode.cache(), mode.network(), mode.render()
Facets ==
    /\ ~crashed
    /\ \E mode \in Modes :
        /\ call' = Request("facets", 0, mode)
        /\ reply' = <<cache(mode), network(mode), render_allowed(mode)>>
        /\ trace' = << >>
        /\ UNCHANGED <<comics, raw_images, rendered_images, next_fh, crashed>>

RequestLatestComic ==
    /\ ~crashed
    /\ \E mode \in Modes, env \in LatestEnvs :
        Returns(Request("request_latest_comic", 0, mode),
                request_latest_comic(Now, mode, env))

RequestComic ==
    /\ ~crashed
    /\ \E num \in Uppers, mode \in Modes, env \in ComicEnvs :
        Returns(Request("request_comic", num, mode),
                request_comic(Now, num, mode, env))

RequestRawImage ==
    /\ ~crashed
    /\ \E comic \in KnownComics, mode \in Modes, env \in ImageEnvs :
        Returns(Request("request_raw_image", comic.num, mode),
                request_raw_image(Now, comic, mode, env))

RequestRenderedImage ==
    /\ ~crashed
    /\ \E comic \in KnownComics, mode \in Modes, env \in RenderedEnvs :
        Returns(Request("request_rendered_image", comic.num, mode),
                request_rendered_image(Now, comic, mode, env))

NextClient ==
    \/ Facets
    \/ RequestLatestComic
    \/ RequestComic
    \/ RequestRawImage
    \/ RequestRenderedImage

SpecClient == InitClient /\ [][NextClient]_vars

---------------------------------------------------------------------------
(* The directory enumeration on its own: File::child_by_index applied to   *)
(* directories and regular files, indices and comic counts                 *)

\* Comic counts: get_comics_count gives the largest number of a stored comic
Counts == (0..MaxCount) \cup {U32_MAX}

\* Indices up to past the end of the listings, and around the ends of the
\* listing of Root under the largest count
Indexes ==
    (0..((2 * MaxCount) + 5))
    \cup {U32_MAX + 3, U32_MAX + 4, (2 * U32_MAX) + 3, (2 * U32_MAX) + 4}

ListedFiles ==
    {Root, Refresh, Credits}
    \cup {[kind |-> k, num |-> n] : k \in ComicKinds, n \in (1..(MaxCount + 1)) \cup {U32_MAX}}

ChildByIndex ==
    \E f \in ListedFiles, index \in Indexes, count \in Counts :
        Applied([index |-> index, file |-> f, op |-> "child_by_index", count |-> count],
                child_by_index(f, index, count))

NextDir == ChildByIndex

SpecDir == Init /\ [][NextDir]_vars

---------------------------------------------------------------------------
(* The line breaking of the alt text: break_text (image.rs).  A text is a  *)
(* sequence of characters, a break opportunity a pair <<location, kind>>   *)
(* as unicode_linebreak::linebreaks yields them, an extent the width that  *)
(* ctx.text_extents measures.                                              *)

\* The advance of one character in the selected font
CharWidth(c) == IF c = "m" THEN 2 ELSE 1

\* ctx.text_extents(line).width
RECURSIVE text_extents(_)
text_extents(line) ==
    IF line = << >> THEN 0 ELSE CharWidth(Head(line)) + text_extents(Tail(line))

\* &text[from..to]
slice(text, from, to) == SubSeq(text, from + 1, to)

\* One element of lines: the extents pushed, and the slice with its offsets
Line(extents, text, from, to) ==
    [text |-> slice(text, from, to), from |-> from, to |-> to, extents |-> extents]

RECURSIVE break_loop(_, _, _, _, _, _)
RECURSIVE break_at(_, _, _, _, _, _, _, _, _)
RECURSIVE MutBreakAt(_, _, _, _, _, _, _, _, _)

\* break_at whose fallback starts the next segment at the current location
MutBreakAt(text, rest, target_width, segment_start, last_location, lines, location, opp_kind, proposed_extents) ==
    IF opp_kind = "Mandatory"
    THEN break_loop(text, rest, target_width, location, location,
                    Append(lines, Line(proposed_extents, text, segment_start, location)))
    ELSE IF proposed_extents > target_width /\ last_location # segment_start
    THEN break_loop(text, rest, target_width, location, location,
                    Append(lines, Line(proposed_extents, text, segment_start, last_location)))
    ELSE IF proposed_extents > target_width /\ last_location = segment_start
    THEN break_loop(text, rest, target_width, location, location,
                    Append(lines, Line(proposed_extents, text, segment_start, location)))
    ELSE break_loop(text, rest, target_width, segment_start, location, lines)

\* The body of the for loop of break_text at one break opportunity
break_at(text, rest, target_width, segment_start, last_location, lines, location, opp_kind, proposed_extents) ==
    IF opp_kind = "Mandatory"
    THEN break_loop(text, rest, target_width, location, location,
                    Append(lines, Line(proposed_extents, text, segment_start, location)))
    ELSE IF proposed_extents > target_width /\ last_location # segment_start
    THEN break_loop(text, rest, target_width, last_location, location,
                    Append(lines, Line(proposed_extents, text, segment_start, last_location)))
    ELSE IF proposed_extents > target_width /\ last_location = segment_start
    THEN break_loop(text, rest, target_width, location, location,
                    Append(lines, Line(proposed_extents, text, segment_start, location)))
    ELSE break_loop(text, rest, target_width, segment_start, location, lines)

\* The for loop of break_text over the break opportunities still to come
break_loop(text, opps, target_width, segment_start, last_location, lines) ==
    IF opps = << >> THEN lines
    ELSE break_at(text, Tail(opps), target_width, segment_start, last_location, lines,
                  Head(opps)[1], Head(opps)[2],
                  text_extents(slice(text, segment_start, Head(opps)[1])))

break_text(text, opps, target_width) == break_loop(text, opps, target_width, 0, 0, << >>)

\* Texts of letters of two widths and spaces
Chars == {"i", "m", " "}
Texts == UNION {[1..n -> Chars] : n \in 1..MaxText}

\* The break opportunities of a text: strictly increasing locations 1..Len,
\* each Allowed or Mandatory
RECURSIVE opportunities(_, _)
opportunities(kinds, location) ==
    IF location > Len(kinds) THEN << >>
    ELSE IF kinds[location] = "No" THEN opportunities(kinds, location + 1)
    ELSE << <<location, kinds[location]>> >> \o opportunities(kinds, location + 1)

Linebreaks(text) ==
    {opportunities(kinds, 1) : kinds \in [1..Len(text) -> {"No", "Allowed", "Mandatory"}]}

BreakTextCall(text, opps, target_width) ==
    [op |-> "break_text", text |-> text, target_width |-> target_width, opps |-> opps]

BreakText ==
    \E text \in Texts, target_width \in 1..MaxWidth :
        \E opps \in Linebreaks(text) :
            Applied(BreakTextCall(text, opps, target_width),
                    break_text(text, opps, target_width))

NextText == BreakText

SpecText == Init /\ [][NextText]_vars

---------------------------------------------------------------------------
(* The handle counter over more opens than it has values: opens of every   *)
(* inode without the bound MaxFh, and the writes that refresh              *)

OpenHandle ==
    /\ Ready
    /\ \E ino \in Inodes :
        \E env \in ContentEnvs(ino) :
            Serve(Call("open", ino), open(Now, next_fh, ino, env))

NextHandles == OpenHandle \/ Getattr \/ Write \/ NextRequest

SpecHandles == Init /\ [][NextHandles]_vars

---------------------------------------------------------------------------
(* Two mounts of the filesystem on one store (SQLITE_DB is one file), each *)
(* serving a read of the Image of the same comic under ReadMode: the calls *)
(* request_comic and request_rendered_image make, one store statement or   *)
(* remote call at a step.  The remote serves both the same comic and PNG.  *)

Tasks == {1, 2}

\* Where a read is, and the locals it holds: comic, raw_image, image
Task(pc, comic, raw_image, image) ==
    [comic |-> comic, image |-> image, raw_image |-> raw_image, pc |-> pc]

Reads(num, tasks) == [num |-> num, op |-> "read_image", tasks |-> tasks]

\* The store as the statement of this step finds it
Shared == [Now EXCEPT !.trace = trace]

At(i, pc) == call.op = "read_image" /\ call.tasks[i].pc = pc

\* The read of task i goes on as t, its call leaving the store and trace of s
Moves(i, t, s) ==
    /\ call' = [call EXCEPT !.tasks[i] = t]
    /\ comics' = s.comics
    /\ raw_images' = s.raw_images
    /\ rendered_images' = s.rendered_images
    /\ trace' = s.trace
    /\ crashed' = (crashed \/ s.panicked)
    /\ UNCHANGED <<next_fh, reply>>

\* The pc of request_comic after insert_comic(..).unwrap()
after_unwrap(stored) == IF stored.s.panicked THEN "panicked" ELSE "get_rendered"

\* Both mounts receive a read of Image(num), no slot of num being cached
StartReads ==
    /\ call = Idle
    /\ \E num \in 1..MaxNum :
        /\ call' = Reads(num, [i \in Tasks |-> Task("get_comic", None, None, None)])
        /\ reply' = [i \in Tasks |-> NoReply]
        /\ UNCHANGED <<comics, raw_images, rendered_images, next_fh, crashed, trace>>

\* request_comic: database::get_comic
GetComic(i) ==
    /\ At(i, "get_comic")
    /\ Moves(i,
             IF IsSome(get_comic(Shared, call.num))
             THEN [call.tasks[i] EXCEPT !.pc = "get_rendered", !.comic = get_comic(Shared, call.num)]
             ELSE [call.tasks[i] EXCEPT !.pc = "api_comic"],
             Log(Shared, Ev("get_comic", call.num, IsSome(get_comic(Shared, call.num)))))

\* request_comic: api::get_comic
ApiComic(i) ==
    /\ At(i, "api_comic")
    /\ Moves(i,
             [call.tasks[i] EXCEPT !.pc = "put_comic", !.comic = api_get_comic(Some(call.num), OkEnv)],
             Log(Shared, Ev("api_comic", call.num, TRUE)))

\* request_comic: database::insert_comic(..).unwrap(), the store accepting
\* the write or not
PutComic(i) ==
    /\ At(i, "put_comic")
    /\ \E env \in {[OkEnv EXCEPT !.put_comic = p] : p \in BOOLEAN} :
        \E stored \in {comic_stored(insert_comic(Shared, Unwrap(call.tasks[i].comic), env),
                                    call.tasks[i].comic, env)} :
            Moves(i, [call.tasks[i] EXCEPT !.pc = after_unwrap(stored)], stored.s)

\* request_rendered_image: database::get_rendered_image
GetRendered(i) ==
    /\ At(i, "get_rendered")
    /\ Moves(i,
             IF IsSome(get_rendered_image(Shared, call.num))
             THEN [call.tasks[i] EXCEPT !.pc = "reply", !.image = get_rendered_image(Shared, call.num)]
             ELSE [call.tasks[i] EXCEPT !.pc = "get_raw"],
             Log(Shared, Ev("get_rendered", call.num, IsSome(get_rendered_image(Shared, call.num)))))

\* request_raw_image: database::get_raw_image
GetRaw(i) ==
    /\ At(i, "get_raw")
    /\ Moves(i,
             IF IsSome(get_raw_image(Shared, call.num))
             THEN [call.tasks[i] EXCEPT !.pc = "render", !.raw_image = get_raw_image(Shared, call.num)]
             ELSE [call.tasks[i] EXCEPT !.pc = "api_image"],
             Log(Shared, Ev("get_raw", call.num, IsSome(get_raw_image(Shared, call.num)))))

\* request_raw_image: api::get_image
ApiImage(i) ==
    /\ At(i, "api_image")
    /\ Moves(i,
             [call.tasks[i] EXCEPT !.pc = "put_raw",
                                   !.raw_image = api_get_image(Unwrap(call.tasks[i].comic), OkEnv)],
             Log(Shared, Ev("api_image", call.num, TRUE)))

\* request_raw_image: database::insert_raw_image(..).ok()
PutRaw(i) ==
    /\ At(i, "put_raw")
    /\ \E env \in {[OkEnv EXCEPT !.put_raw = p] : p \in BOOLEAN} :
        Moves(i, [call.tasks[i] EXCEPT !.pc = "render"],
              insert_raw_image(Shared, call.num, Unwrap(call.tasks[i].raw_image), env))

\* request_rendered_image: crate::image::render
Render(i) ==
    /\ At(i, "render")
    /\ Moves(i,
             [call.tasks[i] EXCEPT
                !.pc = "put_rendered",
                !.image = Some(render(Unwrap(call.tasks[i].comic),
                                      Unwrap(call.tasks[i].raw_image)).image)],
             Log(Shared, Ev("render", call.num, TRUE)))

\* request_rendered_image: database::insert_rendered_image, a failure logged
PutRendered(i) ==
    /\ At(i, "put_rendered")
    /\ \E env \in {[OkEnv EXCEPT !.put_rendered = p] : p \in BOOLEAN} :
        Moves(i, [call.tasks[i] EXCEPT !.pc = "reply"],
              insert_rendered_image(Shared, call.num, Unwrap(call.tasks[i].image), env))

\* read: reply_from_slice of the image, from offset 0 to its end
ReplyImage(i) ==
    /\ At(i, "reply")
    /\ call' = [call EXCEPT !.tasks[i].pc = "done"]
    /\ reply' = [reply EXCEPT ![i] = reply_from_slice(Ok(Unwrap(call.tasks[i].image)), 0,
                                                      Len(Unwrap(call.tasks[i].image))).reply]
    /\ UNCHANGED <<comics, raw_images, rendered_images, next_fh, crashed, trace>>

NextRace ==
    \/ StartReads
    \/ \E i \in Tasks : GetComic(i)
    \/ \E i \in Tasks : ApiComic(i)
    \/ \E i \in Tasks : PutComic(i)
    \/ \E i \in Tasks : GetRendered(i)
    \/ \E i \in Tasks : GetRaw(i)
    \/ \E i \in Tasks : ApiImage(i)
    \/ \E i \in Tasks : PutRaw(i)
    \/ \E i \in Tasks : Render(i)
    \/ \E i \in Tasks : PutRendered(i)
    \/ \E i \in Tasks : ReplyImage(i)

SpecRace == InitClient /\ [][NextRace]_vars

---------------------------------------------------------------------------
(* A directory listed page by page: the kernel calls readdir from offset 0 *)
(* and then from a next-offset of the page before, with a buffer of any    *)
(* room, while writes to the refresh file and reads of images go on        *)
(* between the pages.  The latest comic of the archive is any up to        *)
(* MaxCount.                                                               *)

ListedInodes ==
    {inode(Root), inode(Refresh), inode(Image(1))}
    \cup {inode(MetaFolder(n)) : n \in 1..(MaxCount + 1)}

ListEnvs ==
    {[OkEnv EXCEPT !.comic = c, !.put_comic = p, !.latest = l] :
        c \in BOOLEAN, p \in BOOLEAN, l \in 1..MaxCount}

\* A readdir call of a listing: listed are the entries the kernel took from
\* the pages before, began is the comic count when the listing started
Listing(ino, offset, room, listed, began) ==
    [ino |-> ino, room |-> room, offset |-> offset, op |-> "readdir",
     listed |-> listed, began |-> began]

InitList ==
    /\ \E env \in ListEnvs :
        /\ IsSome(main_latest(env).val)
        /\ comics = main_latest(env).s.comics
    /\ raw_images = << >>
    /\ rendered_images = << >>
    /\ next_fh = 1
    /\ crashed = FALSE
    /\ call = Idle
    /\ reply = NoReply
    /\ trace = << >>

\* The first readdir of a listing
FirstPage ==
    /\ Ready
    /\ \E ino \in ListedInodes, room \in Rooms :
        Serve(Listing(ino, 0, room, << >>, get_comics_count(Now)),
              readdir(Now, next_fh, ino, 0, room))

\* The kernel takes the first taken entries of the last page and calls
\* readdir again with the next-offset of the last of them
NextPage ==
    /\ ~crashed
    /\ call.op = "readdir"
    /\ reply.kind = "directory"
    /\ \E taken \in 1..Len(reply.val), room \in Rooms :
        Serve(Listing(call.ino, reply.val[taken][2], room,
                      call.listed \o SubSeq(reply.val, 1, taken), call.began),
              readdir(Now, next_fh, call.ino, reply.val[taken][2], room))

\* Another operation served between two readdir calls leaves the tables,
\* the handle counter and the trace of out
Between(out) ==
    /\ \E o \in {out} :
        /\ comics' = o.s.comics
        /\ raw_images' = o.s.raw_images
        /\ rendered_images' = o.s.rendered_images
        /\ trace' = o.s.trace
        /\ crashed' = o.s.panicked
        /\ next_fh' = o.next_fh
    /\ UNCHANGED <<call, reply>>

\* A write to the refresh file served between two readdir calls
RefreshBetween ==
    /\ ~crashed
    /\ \E env \in ListEnvs :
        Between(write(Now, next_fh, inode(Refresh), << >>, env))

\* A read of the image of a comic the remote has, served between two
\* readdir calls
ReadBetween ==
    /\ ~crashed
    /\ \E n \in 1..MaxNum :
        Between(read(Now, next_fh, inode(Image(n)), 0, 1, OkEnv))

NextList == FirstPage \/ NextPage \/ RefreshBetween \/ ReadBetween \/ NextRequest

SpecList == InitList /\ [][NextList]_vars

---------------------------------------------------------------------------
(* Properties of the address space, checked under SpecAddr *)

\* A file identity: a comic number is never 0
IsIdentity(f) == f.kind \in ComicKinds => f.num # 0

\* C1: for every file identity f (Root, Refresh, Credits, and each per-comic
\* kind of a non-zero comic number), File::from_inode(f.inode()) == Some(f).
C1_InodeRoundTrip ==
    (call.op = "encode_decode" /\ IsIdentity(call.file)) =>
        (reply.ino = inode(call.file) /\ reply.file = Some(call.file))

\* C1 is exercised on the largest comic number, with a kind in the middle of
\* the discriminants
C1_Witness ==
    /\ call.op = "encode_decode"
    /\ call.file = Transcript(U32_MAX)
    /\ reply.ino = from_halves(U32_MAX, 4)
    /\ reply.file = Some(Transcript(U32_MAX))

\* C2: for every inode i, File::from_inode(i) is None or Some(f) with
\* f.inode() == i, so no two identities share an inode; upper half 0 with a
\* lower half outside {1,2,3}, and a non-zero upper half with a lower half
\* greater than 6, decode to None.
C2_DecodeEncode ==
    call.op = "decode_encode" =>
        /\ IsSome(reply.file) => reply.ino = Some(call.ino)
        /\ IsSome(reply.file) => IsIdentity(Unwrap(reply.file))
        /\ ((call.ino \div U32) = 0 /\ (call.ino % U32) \notin {1, 2, 3}) => reply.file = None
        /\ ((call.ino \div U32) # 0 /\ (call.ino % U32) > 6) => reply.file = None
        /\ \A f \in AddrFiles, g \in AddrFiles :
            (IsIdentity(f) /\ IsIdentity(g) /\ inode(f) = inode(g)) => f = g

\* C2 is exercised on an inode that decodes and on none that does not: this
\* is the one with the last discriminant
C2_Witness ==
    /\ call.op = "decode_encode"
    /\ call.ino = from_halves(42, 6)
    /\ reply.file = Some(RawImage(42))
    /\ reply.ino = Some(call.ino)

\* C3: for every identity f with a parent directory p,
\* File::from_filename(p, f.filename()) == Some(f).
C3_NameRoundTrip ==
    (call.op = "name_parse" /\ IsIdentity(call.file)) => reply.file = Some(call.file)

\* C3 is exercised on a directory name with a four-digit number
C3_Witness ==
    /\ call.op = "name_parse"
    /\ call.file = MetaFolder(1234)
    /\ reply.name = S_info \o <<"1", "2", "3", "4">>
    /\ reply.file = Some(MetaFolder(1234))

---------------------------------------------------------------------------
(* Properties of the filesystem, checked under Spec.  A state with         *)
(* call # Idle is the state an operation left behind: call is the          *)
(* request, reply the answer, trace the calls made while serving it.       *)

\* The identity of the inode of the request c
FileOf(c) == from_inode(c.ino)

\* The identity whose attributes the request c asks for
AttrTarget(c) ==
    IF c.op = "lookup" THEN then_from_filename(from_inode(c.ino), c.name) ELSE from_inode(c.ino)

IsRemoteFetch(e) == e.ev \in {"api_comic", "api_image", "api_latest"}
IsLatestFetch(e) == e.ev = "api_latest"
IsRender(e) == e.ev = "render"
IsCacheRead(e) == e.ev \in {"get_comic", "get_raw", "get_rendered", "get_latest"}
IsCacheWrite(e) == e.ev \in {"put_comic", "put_raw", "put_rendered"}
IsFetchOrRender(e) == IsRemoteFetch(e) \/ IsRender(e)
IsFailure(e) == IsFetchOrRender(e) /\ ~e.ok

IsError(r, code) == r.kind = "error" /\ r.val = code

CacheUnchanged == UNCHANGED <<comics, raw_images, rendered_images>>
CacheEmpty == DOMAIN comics = {} /\ DOMAIN raw_images = {} /\ DOMAIN rendered_images = {}

\* C4: for each of the seven operations, an inode that from_inode does not
\* decode is answered ENOENT and nothing else; the operation makes no
\* orchestrator call and changes no state.
C4_UndecodableIsNotFound ==
    [][(Ready /\ call' # Idle /\ ~IsSome(FileOf(call'))) =>
            /\ IsError(reply', "ENOENT")
            /\ trace' = << >>
            /\ ~crashed'
            /\ CacheUnchanged
            /\ next_fh' = next_fh]_vars

\* C4 is exercised by a lookup of a name Root has, under a parent inode that
\* does not decode, with a cache that holds something
C4_Witness ==
    /\ call.op = "lookup"
    /\ call.name = S_refresh
    /\ call.ino = from_halves(1, MaxLow)
    /\ ~IsSome(FileOf(call))
    /\ DOMAIN comics # {}
    /\ IsError(reply, "ENOENT")

\* The content a read of the regular file f was served from, where the state
\* tells it: None where it does not
ContentOf(f) ==
    CASE f.kind = "Credits" -> Some(CREDITS_DATA)
      [] f.kind = "Refresh" -> Some(<< >>)
      [] f.kind \in {"AltText", "Title", "Date"} /\ f.num \in DOMAIN comics ->
            text_of(f.kind, row_to_comic(comics[f.num]))
      [] f.kind = "RawImage" /\ f.num \in DOMAIN raw_images -> Some(raw_images[f.num])
      [] f.kind = "Image" /\ f.num \in DOMAIN rendered_images -> Some(rendered_images[f.num])
      [] OTHER -> None

\* What C5 says of a read at offset, size of content bytes
ReadRangeOf(bytes, offset, size, r) ==
    /\ offset < Len(bytes) =>
        /\ r.kind = "data"
        /\ r.val = SubSeq(bytes, offset + 1, Min(offset + size, Len(bytes)))
    /\ offset >= Len(bytes) => IsError(r, "EINVAL")
    /\ (offset = Len(bytes) - 1 /\ size >= 1) => (r.kind = "data" /\ Len(r.val) = 1)

\* C5: a read of a regular file with available content of length L returns
\* the bytes [offset, min(offset+size, L)) when 0 <= offset < L, replies
\* EINVAL when offset >= L, and returns one byte at offset L-1 with size >= 1.
C5_ReadRange ==
    (call.op = "read" /\ IsSome(FileOf(call)) /\ call.offset >= 0
     /\ IsSome(ContentOf(Unwrap(FileOf(call))))) =>
        ReadRangeOf(Unwrap(ContentOf(Unwrap(FileOf(call)))), call.offset, call.size, reply)

\* The read was served with no tier producing the content: the last fetch or
\* render failed, or the comic came from the cache, which keeps no transcript
ContentUnavailable(f) ==
    \/ trace # << >> /\ IsFailure(trace[Len(trace)])
    \/ f.kind = "Transcript" /\ trace = << Ev("get_comic", f.num, TRUE) >>

\* C6: a read of Root or MetaFolder(n) replies EISDIR for every offset and
\* size; a read of a decodable regular file whose content no tier can
\* produce replies EREMOTEIO, never ENOENT.
C6_ReadErrors ==
    (call.op = "read" /\ IsSome(FileOf(call))) =>
        /\ filetype(Unwrap(FileOf(call))) = "Directory" => IsError(reply, "EISDIR")
        /\ (filetype(Unwrap(FileOf(call))) = "RegularFile"
            /\ ContentUnavailable(Unwrap(FileOf(call)))) => IsError(reply, "EREMOTEIO")
        /\ filetype(Unwrap(FileOf(call))) = "RegularFile" => ~IsError(reply, "ENOENT")

\* C7: every write to Refresh, whatever the data and the cache, makes one
\* latest-comic request that reads no cache and fetches once from the
\* remote, and replies written with the full length of the data, also when
\* the fetch fails.
C7_WriteRefresh ==
    [][(Ready /\ call'.op = "write" /\ FileOf(call') = Some(Refresh)) =>
            /\ ~crashed'
            /\ reply'.kind = "written"
            /\ reply'.val = Len(call'.data)
            /\ SelectSeq(trace', IsCacheRead) = << >>
            /\ Len(SelectSeq(trace', IsRemoteFetch)) = 1
            /\ trace'[1].ev = "api_latest"]_vars

\* C7 is exercised by a write of MaxData bytes with a populated cache and a
\* failing fetch
C7_Witness ==
    /\ call.op = "write"
    /\ FileOf(call) = Some(Refresh)
    /\ Len(call.data) = MaxData
    /\ DOMAIN comics # {}
    /\ trace = << Ev("api_latest", 0, FALSE) >>
    /\ reply.kind = "written"
    /\ reply.val = MaxData

\* C8: a write to a decodable inode other than Refresh replies EPERM, makes
\* no remote fetch, and leaves every cache slot and the handle counter as
\* they were.
C8_WriteDenied ==
    [][(Ready /\ call'.op = "write" /\ IsSome(FileOf(call'))
        /\ FileOf(call') # Some(Refresh)) =>
            /\ IsError(reply', "EPERM")
            /\ SelectSeq(trace', IsRemoteFetch) = << >>
            /\ ~crashed'
            /\ CacheUnchanged
            /\ next_fh' = next_fh]_vars

\* C8 is exercised by a write to Credits after a handle was given out and the
\* cache was filled
C8_Witness ==
    /\ call.op = "write"
    /\ FileOf(call) = Some(Credits)
    /\ Len(call.data) >= 1
    /\ next_fh > 1
    /\ DOMAIN comics # {}
    /\ IsError(reply, "EPERM")

\* The cache alone does not tell the size of the comic file f
NotInCache(f) ==
    CASE f.kind = "Image" -> f.num \notin DOMAIN rendered_images
      [] f.kind = "RawImage" -> f.num \notin DOMAIN raw_images
      [] f.kind \in {"AltText", "Title", "Transcript", "Date"} -> f.num \notin DOMAIN comics
      [] OTHER -> FALSE

\* C9: attribute lookup (getattr, and the attribute part of lookup and
\* setattr) never fetches from the remote and never renders, for any file
\* and any cache; a size the cache alone does not tell is reported as 4096,
\* so never negative; getattr of Image(42) with an empty cache reports 4096
\* with no network call.
C9_AttrNeverFetches ==
    [][(Ready /\ call'.op \in {"getattr", "lookup", "setattr"}) =>
            /\ ~crashed'
            /\ SelectSeq(trace', IsRender) = << >>
            /\ \A i \in 1..Len(trace') :
                IsRemoteFetch(trace'[i]) =>
                    /\ trace'[i].ev = "api_latest"
                    /\ call'.op = "setattr"
                    /\ FileOf(call') = Some(Refresh)
            /\ reply'.kind \in {"attr", "entry"} =>
                /\ reply'.val.size >= 0
                /\ (IsSome(AttrTarget(call')) /\ NotInCache(Unwrap(AttrTarget(call')))) =>
                        reply'.val.size = 4096
            /\ (call'.op = "getattr" /\ FileOf(call') = Some(Image(42)) /\ CacheEmpty) =>
                /\ reply'.kind = "attr"
                /\ reply'.val.size = 4096
                /\ SelectSeq(trace', IsRemoteFetch) = << >>]_vars

\* C9 is exercised by getattr of Image(42) on an empty cache
C9_Witness ==
    /\ call.op = "getattr"
    /\ FileOf(call) = Some(Image(42))
    /\ CacheEmpty
    /\ reply.kind = "attr"
    /\ reply.val.size = 4096
    /\ SelectSeq(trace, IsRemoteFetch) = << >>

\* The names and comic numbers of the events of t that test picks are these
Names3(t, a, b, c, n) ==
    /\ Len(t) = 3
    /\ <<t[1].ev, t[2].ev, t[3].ev>> = <<a, b, c>>
    /\ \A i \in 1..3 : t[i].num = n

\* What the compositor makes of comic n as the remote serves it
RenderedRemote(n) == render(RemoteComic(n), RemoteImage(RemoteComic(n), "png")).image

\* C10: a read of Image(n) under Normal, from an empty cache and with the
\* remote and the compositor succeeding, makes exactly one metadata fetch,
\* one raw-image fetch and one render, in that order, and exactly three
\* cache writes (metadata, raw image, rendered image of n), in that order,
\* and clamps the returned range to the length of the rendered image.
C10_ReadImageFromEmptyCache ==
    [][(Ready /\ CacheEmpty /\ call'.op = "read" /\ call'.offset >= 0
        /\ IsSome(FileOf(call')) /\ Unwrap(FileOf(call')).kind = "Image"
        /\ SelectSeq(trace', IsFailure) = << >>) =>
            /\ Names3(SelectSeq(trace', IsFetchOrRender), "api_comic", "api_image", "render",
                      Unwrap(FileOf(call')).num)
            /\ Names3(SelectSeq(trace', IsCacheWrite), "put_comic", "put_raw", "put_rendered",
                      Unwrap(FileOf(call')).num)
            /\ reply'.kind = "data" =>
                reply'.val = SubSeq(RenderedRemote(Unwrap(FileOf(call')).num),
                                    call'.offset + 1,
                                    Min(call'.offset + call'.size,
                                        Len(RenderedRemote(Unwrap(FileOf(call')).num))))
            /\ (call'.size >= 1
                /\ call'.offset < Len(RenderedRemote(Unwrap(FileOf(call')).num))) =>
                    reply'.kind = "data"]_vars

---------------------------------------------------------------------------
(* Properties of XkcdClient, checked under SpecClient.  call is the last   *)
(* request, reply the value it returned, trace the calls it made.          *)

\* C11: the four policy presets have exactly these facets (cache, network,
\* render): Normal = (true, true, true), NoNetwork = (true, false, true),
\* BustCache = (false, true, true), VeryFast = (true, false, false).
C11_PolicyFacets ==
    call.op = "facets" =>
        reply = CASE call.mode = "Normal" -> <<TRUE, TRUE, TRUE>>
                  [] call.mode = "NoNetwork" -> <<TRUE, FALSE, TRUE>>
                  [] call.mode = "BustCache" -> <<FALSE, TRUE, TRUE>>
                  [] call.mode = "VeryFast" -> <<TRUE, FALSE, FALSE>>

\* C11 is exercised on the preset that skips the cache
C11_Witness ==
    /\ call.op = "facets"
    /\ call.mode = "BustCache"
    /\ reply = <<FALSE, TRUE, TRUE>>

\* The presets that allow cache reads, and those that allow the network
CacheReading == {"Normal", "NoNetwork", "VeryFast"}
NetworkAllowed == {"Normal", "BustCache"}

\* The request c is for a resource with a cache slot
IsResource(c) == c.op \in {"request_comic", "request_raw_image", "request_rendered_image"}

\* The cache slot of the resource the request c is for holds a value
Populated(c) ==
    CASE c.op = "request_comic" -> c.num \in DOMAIN comics
      [] c.op = "request_raw_image" -> c.num \in DOMAIN raw_images
      [] c.op = "request_rendered_image" -> c.num \in DOMAIN rendered_images
      [] OTHER -> FALSE

\* The value that slot holds, as a read of the store gives it
Cached(c) ==
    CASE c.op = "request_comic" -> row_to_comic(comics[c.num])
      [] c.op = "request_raw_image" -> raw_images[c.num]
      [] c.op = "request_rendered_image" -> rendered_images[c.num]

NoneIn(t, a, b, c) == \A i \in 1..Len(t) : t[i].ev \notin {a, b, c}

Did(t, name) == \E i \in 1..Len(t) : t[i].ev = name /\ t[i].ok
Made(t, name) == \E i \in 1..Len(t) : t[i].ev = name

\* The last request fetched the metadata of comic n from the remote and
\* returned it
FetchedComic(n) ==
    /\ ~crashed
    /\ \/ call.op = "request_comic" /\ call.num = n /\ Did(trace, "api_comic")
       \/ /\ call.op = "request_latest_comic"
          /\ Did(trace, "api_latest")
          /\ reply = Some(RemoteComic(n))

\* The last request fetched the raw image of comic n from the remote
FetchedRaw(n) ==
    /\ ~crashed
    /\ call.op \in {"request_raw_image", "request_rendered_image"}
    /\ call.num = n
    /\ Did(trace, "api_image")

\* The last request rendered the image of comic n
Rendered(n) ==
    /\ ~crashed
    /\ call.op = "request_rendered_image"
    /\ call.num = n
    /\ Did(trace, "render")

ComicSlotHolds(n) == n \in DOMAIN comics /\ comics[n] = comic_to_row(RemoteComic(n))
RawSlotHolds(n) ==
    /\ n \in DOMAIN raw_images
    /\ call.op = "request_raw_image" => reply = Some(raw_images[n])
RenderedSlotHolds(n) == n \in DOMAIN rendered_images /\ reply = Some(rendered_images[n])

\* The last request, under a cache-reading policy, was served from the cache
\* with no remote call
ServedFromCache(op, n) ==
    (call.op = op /\ call.num = n /\ call.mode \in CacheReading) =>
        /\ ~crashed
        /\ reply # None
        /\ NoneIn(trace, "api_comic", "api_image", "api_latest")

Failed(t, name) == \E i \in 1..Len(t) : t[i].ev = name /\ ~t[i].ok

\* The comic number the call name was made for
NumOf(t, name) == t[CHOOSE i \in 1..Len(t) : t[i].ev = name].num

\* The image the compositor makes of the remote's PNG of comic n
RenderedRemoteImage(n) == render(RemoteComic(n), RemoteImage(RemoteComic(n), "png")).image

\* The request returned the value v and the process goes on
Returned(v) == ~crashed /\ reply = Some(v)

\* C14: for comic metadata by number, the latest comic, the raw image and
\* the rendered image, when the remote fetch or the render succeeds but the
\* cache-store write fails, the request still returns the fetched or
\* rendered value and the process does not abort.
C14_WriteFailureSwallowed ==
    /\ (call.op = "request_comic" /\ Did(trace, "api_comic") /\ Failed(trace, "put_comic")) =>
            Returned(RemoteComic(call.num))
    /\ (call.op = "request_latest_comic" /\ Did(trace, "api_latest")
            /\ Failed(trace, "put_comic")) =>
            Returned(RemoteComic(NumOf(trace, "put_comic")))
    /\ (call.op = "request_raw_image" /\ Did(trace, "api_image") /\ Failed(trace, "put_raw")) =>
            \E e \in {"png", "cmyk", "gif"} :
                Returned(RemoteImage(RemoteComic(call.num), e))
    /\ (call.op = "request_rendered_image" /\ Did(trace, "render")
            /\ Failed(trace, "put_rendered")) =>
            Returned(RenderedRemoteImage(call.num))

\* What a request for the latest comic may do: fetch with no argument and
\* return the result, or return unavailable, reading no cache slot
LatestFetchedOrUnavailable ==
    /\ ~crashed
    /\ NoneIn(trace, "get_latest", "get_comic", "get_comics_count")
    /\ \/ /\ Did(trace, "api_latest")
          /\ \E n \in 1..MaxNum : reply = Some(RemoteComic(n))
       \/ reply = None

\* C15: a request for the latest comic, under every policy, is never answered
\* from the cache store: it either makes the no-argument remote fetch and
\* returns its result, or returns unavailable.
C15_LatestNeverFromCache ==
    call.op = "request_latest_comic" => LatestFetchedOrUnavailable

---------------------------------------------------------------------------
(* More properties of the filesystem, checked under Spec *)

\* C16: when the compositor cannot decode the raw image, meets an unsupported
\* pixel format or cannot encode its output, a read or open of Image(n)
\* replies EREMOTEIO and the process keeps running: no compositor failure
\* aborts the process.
C16_CompositorFailureIsRemoteIo ==
    (/\ call.op \in {"read", "open"}
     /\ IsSome(FileOf(call))
     /\ Unwrap(FileOf(call)).kind = "Image"
     /\ Failed(trace, "render")) =>
        (~crashed /\ IsError(reply, "EREMOTEIO"))

\* The bytes a read of the comic file f would serve were obtained while the
\* last operation was served: from the cache, from the remote or by a render
Obtained(f) ==
    CASE f.kind \in {"AltText", "Title", "Date"} ->
            Did(trace, "get_comic") \/ Did(trace, "api_comic")
      [] f.kind = "Transcript" ->
            \/ Did(trace, "get_comic") /\ IsSome(row_to_comic(comics[f.num]).transcript)
            \/ Did(trace, "api_comic") /\ IsSome(RemoteComic(f.num).transcript)
      [] f.kind = "Image" -> Did(trace, "get_rendered") \/ Did(trace, "render")
      [] f.kind = "RawImage" -> Did(trace, "get_raw") \/ Did(trace, "api_image")

\* What C17 says of the reply r to an open of the file f
OpenReplyOf(f, r) ==
    CASE f.kind \in {"Root", "MetaFolder"} -> IsError(r, "EISDIR")
      [] f.kind \in {"Refresh", "Credits"} -> r.kind = "opened"
      [] OTHER ->
            /\ Obtained(f) => r.kind = "opened"
            /\ ~Obtained(f) => IsError(r, "EREMOTEIO")

\* C17: open replies EISDIR for Root and MetaFolder(n), always grants a
\* handle for Refresh and Credits, and for every other regular file grants a
\* handle only if the bytes a read of it would serve are obtainable at that
\* moment under Normal (the comic for AltText, Title and Date, the transcript
\* text for Transcript, the rendered image for Image, the raw image for
\* RawImage), and replies EREMOTEIO otherwise.  Stated of the opens that
\* replied.
C17_OpenProbesContent ==
    (call.op = "open" /\ IsSome(FileOf(call)) /\ ~crashed) =>
        OpenReplyOf(Unwrap(FileOf(call)), reply)

\* The comic slot the attributes of the inode ino derive from is the same
\* before and after the step
SlotsUnchanged(ino) ==
    /\ UNCHANGED <<raw_images, rendered_images>>
    /\ (IsSome(from_inode(ino)) /\ Unwrap(from_inode(ino)).kind \in ComicKinds) =>
            /\ (Unwrap(from_inode(ino)).num \in DOMAIN comics)
                    <=> (Unwrap(from_inode(ino)).num \in DOMAIN comics')
            /\ Unwrap(from_inode(ino)).num \in DOMAIN comics =>
                    comics'[Unwrap(from_inode(ino)).num] = comics[Unwrap(from_inode(ino)).num]

\* C18: setattr on Refresh makes the same forced latest-comic refresh as a
\* write and then replies exactly what getattr of Refresh replies, also when
\* the refresh fails; setattr on any other decodable inode replies exactly
\* what getattr replies for it; and for every file, what getattr reports
\* after a setattr (with any requested mode, uid, gid, size or times) is what
\* it reported before, apart from values derived from cache contents the
\* refresh changed.
C18_SetattrIsGetattr ==
    [][(Ready /\ call'.op = "setattr" /\ IsSome(FileOf(call'))) =>
            /\ ~crashed'
            /\ next_fh' = next_fh
            /\ reply' = getattr(Now', next_fh', call'.ino, OkEnv).reply
            /\ FileOf(call') = Some(Refresh) =>
                    /\ SelectSeq(trace', IsCacheRead) = << >>
                    /\ Len(SelectSeq(trace', IsRemoteFetch)) = 1
                    /\ trace'[1].ev = "api_latest"
                    /\ reply'.kind = "attr"
                    /\ reply'.val = FileAttr(Refresh, 0, 1, EPOCH, REFRESH_PERM)
            /\ FileOf(call') # Some(Refresh) =>
                    /\ CacheUnchanged
                    /\ SelectSeq(trace', IsRemoteFetch) = << >>
            /\ \A ino \in Inodes :
                    SlotsUnchanged(ino) =>
                        getattr(Now', next_fh', ino, OkEnv).reply
                            = getattr(Now, next_fh, ino, OkEnv).reply]_vars

\* C18 is exercised by a chmod 0777 of Refresh whose refresh fails
C18_Witness ==
    /\ call.op = "setattr"
    /\ FileOf(call) = Some(Refresh)
    /\ call.wanted.mode = Some(511)
    /\ trace = << Ev("api_latest", 0, FALSE) >>
    /\ reply.kind = "attr"
    /\ reply.val.perm = REFRESH_PERM

\* What C19 says of the reply r to a lookup that resolves to the identity f:
\* an entry with the attributes the attribute lookup gives for f, which are
\* the ones getattr replies on f's inode when f has an inode of its own
LookupReplyOf(f, r) ==
    /\ r.kind = "entry"
    /\ Some(r.val) = file_attr(Now, f, OkEnv).val
    /\ IsIdentity(f) => getattr(Now, next_fh, inode(f), OkEnv).reply = ReplyAttr(r.val)

\* C19: lookup(parent inode, name) replies with the attributes that getattr
\* gives for the identity from_filename(from_inode(parent), name) when that
\* identity exists, and replies ENOENT in every other case (a parent that
\* does not decode, a parent that is a regular file, a name that does not
\* match the parent's naming convention); it never replies any other error.
C19_LookupIsGetattrOfChild ==
    call.op = "lookup" =>
        /\ ~crashed
        /\ IsSome(AttrTarget(call)) => LookupReplyOf(Unwrap(AttrTarget(call)), reply)
        /\ ~IsSome(AttrTarget(call)) => IsError(reply, "ENOENT")
        /\ ~IsSome(FileOf(call)) => IsError(reply, "ENOENT")
        /\ (IsSome(FileOf(call)) /\ filetype(Unwrap(FileOf(call))) = "RegularFile") =>
                IsError(reply, "ENOENT")
        /\ reply.kind = "error" => reply.val = "ENOENT"

\* C19 is exercised by the lookup of title in the directory of comic 1, with
\* the comic in the cache
C19_Witness ==
    /\ call.op = "lookup"
    /\ FileOf(call) = Some(MetaFolder(1))
    /\ call.name = S_title
    /\ 1 \in DOMAIN comics
    /\ reply.kind = "entry"
    /\ reply.val.ino = inode(Title(1))
    /\ reply.val.size = Len(RemoteComic(1).title)

---------------------------------------------------------------------------
(* Properties of the directory enumeration, checked under SpecDir *)

\* What C20 says child_by_index(Root, i, k) is
RootChild(i, k) ==
    CASE i = 0 -> Some(<<inode(Root), "Directory", S_dot>>)
      [] i = 1 -> Some(<<inode(Root), "Directory", S_dotdot>>)
      [] i = 2 -> Some(<<inode(Refresh), "RegularFile", S_refresh>>)
      [] i = 3 -> Some(<<inode(Credits), "RegularFile", S_credits>>)
      [] 4 <= i /\ i <= k + 3 ->
            Some(<<inode(Image(i - 3)), "RegularFile", filename(Image(i - 3))>>)
      [] k + 4 <= i /\ i <= (2 * k) + 3 ->
            Some(<<inode(MetaFolder(i - 3 - k)), "Directory", filename(MetaFolder(i - 3 - k))>>)
      [] i >= (2 * k) + 4 -> None

\* C20: for every comic count k >= 0, child_by_index(Root, i, k) is "."
\* (Root) at i = 0, ".." (Root) at i = 1, Refresh at i = 2, Credits at i = 3,
\* Image(i-3) for 4 <= i <= k+3, MetaFolder(i-3-k) for k+4 <= i <= 2k+3, and
\* None for every i >= 2k+4: the enumeration first returns None at exactly
\* 2k + 3 + 1, the three root-level singletons being Root, Refresh, Credits.
C20_RootChildByIndex ==
    (call.op = "child_by_index" /\ call.file = Root) =>
        reply = RootChild(call.index, call.count)

\* C20 is exercised on the last entry of the listing of Root under MaxCount
\* comics
C20_Witness ==
    /\ call.op = "child_by_index"
    /\ call.file = Root
    /\ call.count = MaxCount
    /\ call.index = (2 * MaxCount) + 3
    /\ reply = Some(<<from_halves(MaxCount, 1), "Directory", filename(MetaFolder(MaxCount))>>)

\* The entry the listing of a directory holds for file f
ListedAs(f, type) == Some(<<inode(f), type, filename(f)>>)

\* Entry i of a listing of Root under k comics that holds ".", "..", the
\* files of singles, the Images of comics 1..k and the MetaFolders of comics
\* 1..k, in this order, and nothing else
RootListing(i, k, singles) ==
    CASE i = 0 -> Some(<<inode(Root), "Directory", S_dot>>)
      [] i = 1 -> Some(<<inode(Root), "Directory", S_dotdot>>)
      [] 2 <= i /\ i < 2 + Len(singles) -> ListedAs(singles[i - 1], "RegularFile")
      [] 2 + Len(singles) <= i /\ i < 2 + Len(singles) + k ->
            ListedAs(Image(i - 1 - Len(singles)), "RegularFile")
      [] 2 + Len(singles) + k <= i /\ i < 2 + Len(singles) + (2 * k) ->
            ListedAs(MetaFolder(i - 1 - Len(singles) - k), "Directory")
      [] OTHER -> None

\* C21, as claimed: the listing of Root for comic count k is "." at index 0
\* and ".." at index 1, followed directly by the Images of comics 1..k in
\* ascending number, followed directly by the MetaFolders of comics 1..k in
\* ascending number, and it ends after the last MetaFolder.
C21_RootListing ==
    (call.op = "child_by_index" /\ call.file = Root) =>
        reply = RootListing(call.index, call.count, << >>)

\* C21, amended: the listing of Root for comic count k is "." at index 0 and
\* ".." at index 1, followed directly by Refresh and Credits, followed
\* directly by the Images of comics 1..k in ascending number, followed
\* directly by the MetaFolders of comics 1..k in ascending number, every
\* Image before every MetaFolder, and it ends after the last MetaFolder.
C21_RootListingWithSingletons ==
    (call.op = "child_by_index" /\ call.file = Root) =>
        reply = RootListing(call.index, call.count, <<Refresh, Credits>>)

\* C21 is exercised where the listing of Root under MaxCount comics passes
\* from the last Image to the first MetaFolder
C21_Witness ==
    /\ call.op = "child_by_index"
    /\ call.file = Root
    /\ call.count = MaxCount
    /\ call.index = MaxCount + 4
    /\ reply = Some(<<from_halves(1, 1), "Directory", filename(MetaFolder(1))>>)
    /\ child_by_index(Root, MaxCount + 3, MaxCount)
        = Some(<<from_halves(MaxCount, 0), "RegularFile", filename(Image(MaxCount))>>)

\* The seven entries of the listing of MetaFolder(n), in order
MetaFolderListing(n) ==
    << Some(<<inode(MetaFolder(n)), "Directory", S_dot>>),
       Some(<<inode(Root), "Directory", S_dotdot>>),
       Some(<<inode(AltText(n)), "RegularFile", S_alt>>),
       Some(<<inode(Title(n)), "RegularFile", S_title>>),
       Some(<<inode(Transcript(n)), "RegularFile", S_transcript>>),
       Some(<<inode(Date(n)), "RegularFile", S_date>>),
       Some(<<inode(RawImage(n)), "RegularFile", S_raw_image>> ) >>

\* C22: for MetaFolder(n) with n <= comic count, child_by_index yields
\* exactly seven entries in this order: "." (MetaFolder(n)), ".." (Root's
\* inode), alt, title, transcript, date, raw_image, each with the inode and
\* the file type of that file of comic n, and None from index 7 on; for
\* n > comic count it yields None at every index, 0 and 1 included.
C22_MetaFolderChildByIndex ==
    (call.op = "child_by_index" /\ call.file.kind = "MetaFolder") =>
        reply = IF call.file.num <= call.count /\ call.index < 7
                THEN MetaFolderListing(call.file.num)[call.index + 1]
                ELSE None

\* C22 is exercised on the last entry of the newest comic's folder, while
\* the folder of the comic after it has no entry
C22_Witness ==
    /\ call.op = "child_by_index"
    /\ call.file = MetaFolder(MaxCount)
    /\ call.count = MaxCount
    /\ call.index = 6
    /\ reply = Some(<<from_halves(MaxCount, 6), "RegularFile", S_raw_image>>)
    /\ child_by_index(MetaFolder(MaxCount + 1), 0, MaxCount) = None

---------------------------------------------------------------------------
(* More properties of the address space, checked under SpecAddr *)

\* A numeral without its leading zeros
RECURSIVE StripZeros(_)
StripZeros(d) == IF Len(d) > 1 /\ Head(d) = "0" THEN StripZeros(Tail(d)) ELSE d

\* d is a decimal numeral of n: digits only, after an optional plus sign
IsNumeralOf(d, n) ==
    LET u == IF d # << >> /\ Head(d) = "+" THEN Tail(d) ELSE d
    IN  /\ u # << >>
        /\ \A i \in 1..Len(u) : IsDigit(u[i])
        /\ StripZeros(u) = to_decimal(n)

MetaNames == {S_alt, S_title, S_transcript, S_date, S_raw_image}

\* The (parent, name) pairs C23 lists, with the identity each stands for
ListedPair(parent, name, f) ==
    \/ /\ parent = Root
       /\ f.kind = "Image"
       /\ starts_with(name, S_comic) /\ ends_with(name, S_png)
       /\ IsNumeralOf(SubSeq(name, Len(S_comic) + 1, Len(name) - Len(S_png)), f.num)
    \/ /\ parent = Root
       /\ f.kind = "MetaFolder"
       /\ starts_with(name, S_info)
       /\ IsNumeralOf(SubSeq(name, Len(S_info) + 1, Len(name)), f.num)
    \/ parent = Root /\ name = S_refresh /\ f = Refresh
    \/ parent = Root /\ name = S_credits /\ f = Credits
    \/ /\ parent.kind = "MetaFolder"
       /\ f.num = parent.num
       /\ \/ name = S_alt /\ f.kind = "AltText"
          \/ name = S_title /\ f.kind = "Title"
          \/ name = S_transcript /\ f.kind = "Transcript"
          \/ name = S_date /\ f.kind = "Date"
          \/ name = S_raw_image /\ f.kind = "RawImage"

\* C23: from_filename returns an identity only for (Root, comic_<number>.png)
\* -> Image, (Root, info_<number>) -> MetaFolder, (Root, refresh), (Root,
\* credits) and (MetaFolder(n), alt/title/transcript/date/raw_image) -> that
\* file of comic n; every other pair gives None: a regular file as parent
\* accepts no name, Root rejects the five metadata literals, a MetaFolder
\* rejects comic_* and info_* names; so the parent a name resolved under is
\* the one parent of the identity it gave.
C23_FromFilenameDomain ==
    call.op = "from_filename" =>
        /\ IsSome(reply) =>
              /\ ListedPair(call.file, call.name, Unwrap(reply))
              /\ ParentOf(Unwrap(reply)) = Some(call.file)
        /\ call.file.kind \notin {"Root", "MetaFolder"} => reply = None
        /\ (call.file = Root /\ call.name \in MetaNames) => reply = None
        /\ (/\ call.file.kind = "MetaFolder"
            /\ starts_with(call.name, S_comic) \/ starts_with(call.name, S_info))
                => reply = None

\* C23 is exercised when a metadata literal resolves under the folder of a
\* comic, the same literal giving nothing under Root and under a file
C23_Witness ==
    /\ call.op = "from_filename"
    /\ call.file = MetaFolder(1)
    /\ call.name = S_transcript
    /\ reply = Some(Transcript(1))
    /\ from_filename(Root, S_transcript) = None
    /\ from_filename(Image(1), S_transcript) = None

---------------------------------------------------------------------------
(* Properties of the line breaking, checked under SpecText *)

\* A break opportunity of the call lies strictly inside the line
BreakableInside(line) ==
    \E i \in 1..Len(call.opps) :
        line.from < call.opps[i][1] /\ call.opps[i][1] < line.to

\* C24: for every text, every set of break opportunities and every target
\* width, a line that break_text emits is wider than the target width only
\* when no break opportunity lies between its start and its end, at which a
\* shorter line could have been committed; lines committed at a mandatory
\* break included.
C24_OverflowOnlyWhenUnbreakable ==
    call.op = "break_text" =>
        \A i \in 1..Len(reply) :
            text_extents(reply[i].text) > call.target_width => ~BreakableInside(reply[i])

\* The last break opportunity is the mandatory break at the end of the text
EndsMandatory ==
    /\ call.opps # << >>
    /\ call.opps[Len(call.opps)] = <<Len(call.text), "Mandatory">>

RECURSIVE Concat(_)
Concat(lines) == IF lines = << >> THEN << >> ELSE Head(lines).text \o Concat(Tail(lines))

\* C25: for every non-empty text whose last break opportunity is the
\* mandatory break at the end of the text, the lines break_text emits are
\* consecutive, non-overlapping, non-empty slices of the text, and their
\* concatenation in order is the text: no character is dropped or repeated,
\* after an overflow fallback either.
C25_LinesPartitionText ==
    (call.op = "break_text" /\ call.text # << >> /\ EndsMandatory) =>
        /\ reply # << >>
        /\ reply[1].from = 0
        /\ reply[Len(reply)].to = Len(call.text)
        /\ \A i \in 1..Len(reply) :
              /\ reply[i].from < reply[i].to
              /\ reply[i].text = slice(call.text, reply[i].from, reply[i].to)
              /\ i < Len(reply) => reply[i + 1].from = reply[i].to
        /\ Concat(reply) = call.text

\* C25 is exercised when the second opportunity overflows and the line up
\* to the first one is committed, the rest following at the mandatory break
C25_Witness ==
    /\ call.op = "break_text"
    /\ call.text = <<"i", " ", "m">>
    /\ call.opps = << <<1, "Allowed">>, <<2, "Allowed">>, <<3, "Mandatory">> >>
    /\ call.target_width = 1
    /\ Len(reply) = 2
    /\ reply[1].text = <<"i">>
    /\ reply[2].text = <<" ", "m">>

---------------------------------------------------------------------------
(* More properties of XkcdClient, checked under SpecClient *)

\* How many calls named name the last request made
Count(t, name) == Cardinality({i \in 1..Len(t) : t[i].ev = name})

TierCalls ==
    {"get_latest", "get_comic", "get_raw", "get_rendered",
     "api_latest", "api_comic", "api_image", "render"}

\* The last request went through its tiers once: no tier was entered twice,
\* and no more remote fetches and renders were made than the request's kind
\* allows
OnePass ==
    /\ \A name \in TierCalls : Count(trace, name) <= 1
    /\ Count(trace, "api_latest") + Count(trace, "api_comic")
          <= (IF call.op \in {"request_comic", "request_latest_comic"} THEN 1 ELSE 0)
    /\ Count(trace, "api_image")
          <= (IF call.op \in {"request_raw_image", "request_rendered_image"} THEN 1 ELSE 0)
    /\ Count(trace, "render") <= (IF call.op = "request_rendered_image" THEN 1 ELSE 0)

\* C26: every orchestrator request makes a single pass through its tiers:
\* request_comic and request_latest_comic issue at most one remote metadata
\* fetch, request_raw_image at most one remote image fetch,
\* request_rendered_image at most one remote image fetch and at most one
\* render; a failed tier is never retried within the request, and every
\* request terminates with a value or unavailable.
C26_SinglePass ==
    (IsResource(call) \/ call.op = "request_latest_comic") =>
        /\ OnePass
        /\ ~crashed
        /\ reply = None \/ IsSome(reply)

---------------------------------------------------------------------------
(* Properties of concurrent reads, checked under SpecRace *)

\* What one read of Image(n), alone on an empty store that accepts its
\* writes, stores and is handed for its reply
Sequential(n) == read_content(Fresh, Some(Image(n)), OkEnv)

\* Both reads are over: each replied or aborted
BothOver == \A i \in Tasks : call.tasks[i].pc \in {"done", "panicked"}

\* The table holds what the sequential read stored in it, through the
\* writes named name that the store accepted, and nothing else
AsSequential(table, stored, name) ==
    table = IF Did(trace, name) THEN stored ELSE << >>

\* C27: when two reads of the same uncached comic n run concurrently under
\* the Normal policy and the remote returns the same value to both, both
\* may fetch from the network, both return that value, and after both
\* complete each cache slot of n (metadata, raw image, rendered image) holds
\* exactly one entry, equal to the value a single sequential read would
\* have stored: the last write wins.
C27_ConcurrentColdReads ==
    (call.op = "read_image" /\ BothOver) =>
        /\ \A i \in Tasks :
              /\ call.tasks[i].pc = "done"
              /\ reply[i] = ReplyData(Sequential(call.num).val.bytes)
        /\ AsSequential(comics, Sequential(call.num).s.comics, "put_comic")
        /\ AsSequential(raw_images, Sequential(call.num).s.raw_images, "put_raw")
        /\ AsSequential(rendered_images, Sequential(call.num).s.rendered_images, "put_rendered")

---------------------------------------------------------------------------
(* Properties of the handle counter, checked under SpecHandles *)

\* The step served an open that was granted a handle
Granted == call'.op = "open" /\ reply'.kind = "opened"

\* The handle the open after k more successful opens is given
RECURSIVE HandleAfter(_, _)
HandleAfter(fh, k) ==
    IF k = 0 THEN gen_fh(fh).fh ELSE HandleAfter(gen_fh(fh).next_fh, k - 1)

\* C28: the handle counter starts at 1; each successful open returns the
\* current counter value and advances the counter by exactly one, wrapping
\* modulo the number of its values, so the handles of successive successful
\* opens increase strictly until the wraparound and no two of fewer opens
\* than the counter has values receive the same handle; nothing else
\* changes the counter: it is never reset.
C28_HandleCounter ==
    /\ next_fh = 1
    /\ [][IF Granted
          THEN /\ reply' = ReplyOpened(next_fh)
               /\ next_fh' = (next_fh + 1) % FH
               /\ next_fh' > next_fh \/ (next_fh = FH - 1 /\ next_fh' = 0)
          ELSE next_fh' = next_fh]_vars
    /\ [](\A j, k \in 0..(FH - 2) : j < k => HandleAfter(next_fh, j) # HandleAfter(next_fh, k))

\* C28 is exercised when an open is given the last value of the counter and
\* the counter wraps to 0
C28_Witness ==
    /\ call.op = "open"
    /\ reply = ReplyOpened(FH - 1)
    /\ next_fh = 0

---------------------------------------------------------------------------
(* Properties of the attributes, checked under Spec *)

\* The four timestamps of the attributes are all t
Stamped(attr, t) == attr.atime = t /\ attr.mtime = t /\ attr.ctime = t /\ attr.crtime = t

\* The publication date of a comic as a timestamp: noon of that day
PublishedAt(c) == <<c.year, c.month, c.day, 12>>

IsComicFile(f) == f.kind \in ComicKinds
IsStatic(f) == f.kind \in {"Root", "Refresh", "Credits"}

PermitsWriting(perm) == \E bit \in {128, 16, 2} : (perm \div bit) % 2 = 1

\* The write operation on the file with this inode is accepted, whatever
\* is written and whatever the refresh meets
WriteAccepted(ino) ==
    \A data \in Datas, env \in RefreshEnvs(ino) :
        write(Now, next_fh, ino, data, env).reply.kind = "written"

WriteDenied(ino) ==
    \A data \in Datas, env \in RefreshEnvs(ino) :
        write(Now, next_fh, ino, data, env).reply.kind = "error"

\* C30: Root and every MetaFolder report the fixed size 4096 with 8 blocks;
\* every file reports the read-only mode 0o444 except Refresh, which
\* reports the writable mode 0o666; so the mode reported for a file permits
\* writing if and only if the write operation on that file is accepted.
C30_SizesAndModes ==
    (call.op \in {"getattr", "lookup", "setattr"} /\ reply.kind \in {"attr", "entry"}) =>
        /\ Unwrap(AttrTarget(call)).kind \in {"Root", "MetaFolder"} =>
              reply.val.size = 4096 /\ reply.val.blocks = 8
        /\ reply.val.perm = IF AttrTarget(call) = Some(Refresh) THEN 438 ELSE 292
        /\ PermitsWriting(reply.val.perm) <=> WriteAccepted(reply.val.ino)
        /\ PermitsWriting(reply.val.perm) \/ WriteDenied(reply.val.ino)

\* C30 is exercised by getattr of Refresh, the one file whose mode permits
\* writing, while the folder of a comic reports 4096 bytes in 8 blocks
C30_Witness ==
    /\ call.op = "getattr"
    /\ FileOf(call) = Some(Refresh)
    /\ reply.kind = "attr"
    /\ reply.val.perm = 438
    /\ WriteAccepted(call.ino)
    /\ getattr(Now, next_fh, inode(MetaFolder(1)), OkEnv).reply.val.size = 4096
    /\ getattr(Now, next_fh, inode(MetaFolder(1)), OkEnv).reply.val.blocks = 8

---------------------------------------------------------------------------
(* Properties of paged listings, checked under SpecList *)

\* The number of children of dir under count: the first index from i on at
\* which child_by_index has no entry
RECURSIVE ChildCount(_, _, _)
ChildCount(dir, count, i) ==
    IF child_by_index(dir, i, count) = None THEN i ELSE ChildCount(dir, count, i + 1)

\* The entry readdir adds for index i: inode, next-offset, type, name
EntryAt(dir, count, i) ==
    <<Unwrap(child_by_index(dir, i, count))[1], i + 1,
      Unwrap(child_by_index(dir, i, count))[2],
      Unwrap(child_by_index(dir, i, count))[3]>>

\* One listing of dir with a buffer that never fills
Unpaged(dir, count) ==
    [i \in 1..ChildCount(dir, count, 0) |-> EntryAt(dir, count, i - 1)]

\* The step is a readdir call
IsReaddir == call' # call /\ call'.op = "readdir"

\* The page the call of this step is answered with, under the comic count
\* of the store it found
PageOf(dir, count) ==
    \E n \in {ChildCount(dir, count, 0)} :
        /\ reply'.kind = "directory"
        /\ Len(reply'.val) = Min(call'.room, n - Min(call'.offset, n))
        /\ \A j \in 1..Len(reply'.val) :
              reply'.val[j] = EntryAt(dir, count, call'.offset + j - 1)

\* The entries taken so far and this page continue one unpaged listing, and
\* an empty page ends a listing that has taken all of it
Resumes(dir, count) ==
    \E whole \in {Unpaged(dir, count)} :
        /\ Len(call'.listed) = call'.offset
        /\ call'.listed \o reply'.val = SubSeq(whole, 1, call'.offset + Len(reply'.val))
        /\ reply'.val = << >> => call'.listed = whole

\* C31: readdir on a regular file replies ENOTDIR; on Root or a MetaFolder
\* it replies the entries of child_by_index from the offset on, in order
\* and each with next-offset index + 1, until the buffer is full or the
\* children end; it changes no table and no handle counter; and while the
\* comic count is the one the listing began with, the pages of a listing
\* resumed from any returned next-offset add up to the unpaged listing
C31_ReaddirPages ==
    [][IsReaddir =>
        /\ UNCHANGED <<comics, raw_images, rendered_images, next_fh, crashed>>
        /\ \E dir \in {Unwrap(from_inode(call'.ino))}, count \in {get_comics_count(Now)} :
              IF dir.kind \notin {"Root", "MetaFolder"}
              THEN reply' = ReplyError("ENOTDIR")
              ELSE /\ PageOf(dir, count)
                   /\ count = call'.began => Resumes(dir, count)]_vars

\* Root has been listed to its end one entry at a page under MaxCount comics
C31_Witness ==
    /\ call.op = "readdir"
    /\ call.ino = inode(Root)
    /\ call.room = 1
    /\ call.began = MaxCount
    /\ get_comics_count(Now) = MaxCount
    /\ Len(call.listed) = (2 * MaxCount) + 4
    /\ reply = ReplyDirectory(<< >>)

---------------------------------------------------------------------------
(* Properties of the image tables, checked under Spec *)

\* C32: in every state the filesystem operations reach, a comic with a
\* rendered image in the store has a raw image in the store, and the
\* rendered image is the composition of that raw image
C32_RenderedFromStoredRaw ==
    \A n \in DOMAIN rendered_images :
        /\ n \in DOMAIN raw_images
        /\ render(RemoteComic(n), raw_images[n]).kind = "ok"
        /\ rendered_images[n] = render(RemoteComic(n), raw_images[n]).image

\* The entries a listing has been given so far: those taken and the last page
Given == call.listed \o reply.val

\* C33: an entry of Root returned at index i under the comic count a listing
\* began with is returned at the same index under every larger count, so a
\* paged listing of Root with refreshes between its pages gives no name
\* twice and, at its end, has given every entry that existed when it began
C33_StableRootIndices ==
    (call.op = "readdir" /\ call.ino = inode(Root) /\ reply.kind = "directory"
     /\ get_comics_count(Now) >= call.began)
    => /\ \A i \in 0..(ChildCount(Root, call.began, 0) - 1) :
            child_by_index(Root, i, get_comics_count(Now))
              = child_by_index(Root, i, call.began)
       /\ \A i, j \in 1..Len(Given) : Given[i][4] = Given[j][4] => i = j
       /\ reply.val = << >>
          => \A i \in 0..(ChildCount(Root, call.began, 0) - 1) :
                \E j \in 1..Len(Given) : Given[j][4] = EntryAt(Root, call.began, i)[4]

---------------------------------------------------------------------------
(* Properties of lookup against the listings, checked under Spec *)

\* name is listed in the directory d under count, with the inode ino
ListedIn(d, count, name, ino) ==
    \E i \in 0..(ChildCount(d, count, 0) - 1) :
        \E child \in {Unwrap(child_by_index(d, i, count))} :
            child[3] = name /\ child[1] = ino

\* C34: every name a directory lists, apart from "." and "..", resolves by
\* lookup in it to the listed inode, and every name lookup resolves in a
\* directory is listed for it under the current comic count
C34_ListingAgreesWithLookup ==
    (call.op = "lookup" /\ ~crashed /\ IsSome(from_inode(call.ino)))
    => /\ \A ino \in Inodes :
            (ListedIn(Unwrap(from_inode(call.ino)), get_comics_count(Now), call.name, ino)
             /\ call.name \notin {S_dot, S_dotdot})
            => (reply.kind = "entry" /\ reply.val.ino = ino)
       /\ reply.kind = "entry"
          => ListedIn(Unwrap(from_inode(call.ino)), get_comics_count(Now),
                      call.name, reply.val.ino)

---------------------------------------------------------------------------
(* Properties of the identities from_filename gives, checked under SpecAddr *)

\* C35: every identity from_filename returns, for any parent and any name,
\* is a defined identity: its comic number is not 0, and from_inode of its
\* inode gives it back
C35_FromFilenameDefined ==
    (call.op = "from_filename" /\ IsSome(reply))
    => /\ IsIdentity(Unwrap(reply))
       /\ from_inode(inode(Unwrap(reply))) = reply

---------------------------------------------------------------------------
(* Properties of the store over time, checked under Spec *)

\* C36: no step of the filesystem removes an entry of the store: a comic
\* that has metadata, a raw image or a rendered image in the store keeps
\* having one, and the comic count never decreases
C36_NoCacheRemoval ==
    [][/\ DOMAIN comics \subseteq DOMAIN comics'
       /\ DOMAIN raw_images \subseteq DOMAIN raw_images'
       /\ DOMAIN rendered_images \subseteq DOMAIN rendered_images'
       /\ get_comics_count(Now) <= get_comics_count(Now)']_vars

\* A refresh has failed to write the metadata of a comic again, and the
\* store still holds its metadata and both its images
C36_Witness ==
    /\ call.op = "write"
    /\ call.ino = inode(Refresh)
    /\ reply.kind = "written"
    /\ \E n \in 1..MaxNum :
        /\ Failed(trace, "put_comic")
        /\ NumOf(trace, "put_comic") = n
        /\ n \in DOMAIN comics
        /\ n \in DOMAIN raw_images
        /\ n \in DOMAIN rendered_images

---------------------------------------------------------------------------
(* Properties of the refresh, checked under SpecList *)

\* The step is a write to the refresh file whose remote fetch and whose
\* write to the store both succeeded
IsStoredRefresh ==
    call' = call /\ Did(trace', "api_latest") /\ Did(trace', "put_comic")

\* C37: a write to refresh that fetches the latest comic m and stores it
\* leaves max(count before, m) as the comic count, with comic_<m>.png and
\* info_<m> in the listing of Root; it changes no raw image, no rendered
\* image, and the metadata of no comic other than m
C37_RefreshFrame ==
    [][IsStoredRefresh =>
        \E m \in {NumOf(trace', "put_comic")}, before \in {get_comics_count(Now)},
           after \in {get_comics_count(Now)'} :
            /\ after = IF before > m THEN before ELSE m
            /\ ListedIn(Root, after, filename(Image(m)), inode(Image(m)))
            /\ ListedIn(Root, after, filename(MetaFolder(m)), inode(MetaFolder(m)))
            /\ raw_images' = raw_images
            /\ rendered_images' = rendered_images
            /\ DOMAIN comics' = (DOMAIN comics) \cup {m}
            /\ \A n \in (DOMAIN comics) \ {m} : comics'[n] = comics[n]]_vars

\* A refresh has stored a latest comic below the comic count, on a store
\* that holds the images of a comic
C37_Witness ==
    /\ Did(trace, "api_latest")
    /\ Did(trace, "put_comic")
    /\ NumOf(trace, "put_comic") < get_comics_count(Now)
    /\ DOMAIN raw_images # {}
    /\ DOMAIN rendered_images # {}

---------------------------------------------------------------------------
(* Properties of getattr after a read, checked under Spec *)

\* The last operation was a read of the whole content of a file of a comic
\* that returned data, and every write to the store it made succeeded
ReadWhole ==
    /\ call.op = "read"
    /\ ~crashed
    /\ IsSome(FileOf(call))
    /\ Unwrap(FileOf(call)).kind
         \in {"Image", "RawImage", "AltText", "Title", "Date", "Transcript"}
    /\ call.offset = 0
    /\ call.size = U32_MAX
    /\ reply.kind = "data"
    /\ \A i \in 1..Len(trace) : IsCacheWrite(trace[i]) => trace[i].ok

\* C38: after a read of a content file of a comic has returned data and
\* its writes to the store succeeded, a getattr of the same file reports
\* the full length of the content the read served as the size
C38_SizeAfterRead ==
    ReadWhole =>
        /\ getattr(Now, next_fh, call.ino, OkEnv).reply.kind = "attr"
        /\ getattr(Now, next_fh, call.ino, OkEnv).reply.val.size = Len(reply.val)

---------------------------------------------------------------------------
(* Properties of the comics read back from the store, checked under Spec *)

\* The comic c agrees with the comic r of the remote in the fields the
\* filesystem shows
SameOutput(c, r) ==
    /\ c.num = r.num
    /\ c.day = r.day
    /\ c.month = r.month
    /\ c.year = r.year
    /\ c.alt = r.alt
    /\ c.title = r.title
    /\ c.safe_title = r.safe_title
    /\ c.transcript = r.transcript
    /\ c.img_url = r.img_url

\* The last operation was a read of a metadata file whose comic came from
\* the store
ReadFromStore ==
    /\ call.op = "read"
    /\ ~crashed
    /\ IsSome(FileOf(call))
    /\ Unwrap(FileOf(call)).kind \in {"AltText", "Title", "Date", "Transcript"}
    /\ Did(trace, "get_comic")

\* C39: a comic read back from the store equals the comic the remote
\* answered in number, date, alt text, title, safe title, transcript and
\* image URL, so a read of a metadata file replies the same whether the
\* comic came from the store or from the remote
C39_CacheRoundTrip ==
    /\ \A n \in DOMAIN comics : SameOutput(Unwrap(get_comic(Now, n)), RemoteComic(n))
    /\ ReadFromStore
       => reply = read(Fresh, next_fh, call.ino, call.offset, call.size, OkEnv).reply

---------------------------------------------------------------------------
(* Properties of the extents of the lines, checked under SpecText *)

\* The largest of the widths ws
Widest(ws) == CHOOSE w \in ws : \A v \in ws : v <= w

\* C40: every line break_text returns carries the measured extents of its
\* own text, whichever branch committed it, so the width of the block of
\* lines is the width of the widest line drawn
C40_ExtentsOfEachLine ==
    (call.op = "break_text" /\ reply # << >>) =>
        /\ \A i \in 1..Len(reply) : reply[i].extents = text_extents(reply[i].text)
        /\ Widest({reply[i].extents : i \in 1..Len(reply)})
             = Widest({text_extents(reply[i].text) : i \in 1..Len(reply)})

====
